---- MODULE Spec2Model ----
(***************************************************************************)
(* Verification model of the website pre-check tool:                       *)
(*   browser_manager.py     BrowserManager (session, harvest, scroll)      *)
(*   pagespeed_analyzer.py  PageSpeedAPI, SimplePerformanceAnalyzer        *)
(*   website_analyzer.py    WebsiteAnalyzer (orchestrator)                 *)
(*                                                                         *)
(* External collaborators (Selenium WebDriver, the page, the HTTP API, the *)
(* file system) are inputs chosen with \E from small sets.  A Python       *)
(* exception is modelled by the value the surrounding try/except turns it  *)
(* into; `raised` records an exception that reaches the caller.            *)
(***************************************************************************)
EXTENDS Integers, Sequences, FiniteSets, TLC

(***************************************************************************)
(* Bounds                                                                  *)
(***************************************************************************)
MaxCloseCalls == 3
MaxHeight == 4          \* page heights range over 0..MaxHeight (abstract px)
MaxViewportHeight == 2  \* window.innerHeight ranges over 1..MaxViewportHeight
MaxSteps == 3           \* scroll_page(steps=...) ranges over 1..MaxSteps
CaptureSteps == 2       \* walk length of scroll_and_capture_errors (the code fixes 10)
MaxStore == 1           \* entries the page pushes to window.consoleErrors
MaxShots == 3           \* take_screenshot calls on one session
MaxCaptures == 2        \* frames the worker samples in one recording
ScrollCommands == 3     \* driver commands scroll_page issues while recording

(***************************************************************************)
(* State of one BrowserManager (browser_manager.py)                        *)
(***************************************************************************)
VARIABLES
    viewport,       \* self.viewport
    driver,         \* self.driver: "None" or "Chrome"
    procAlive,      \* the external browser process is running
    quitCalls,      \* number of driver.quit() calls issued
    closeCalls,     \* number of close() calls made by the owner
    raised,         \* the last BrowserManager call propagated an exception
    setupResult,    \* return value of setup_driver: "notrun", "True", "False"
    createAttempts, \* option sets tried with webdriver.Chrome(...), in order
    currentUrl,     \* URL loaded by the last driver.get, "none" before
    hooksInstalled, \* the error-listener script was injected in the page
    navResult,      \* return value of the last navigate_to_url: "none", "True", "False"
    cssHandled,     \* the last navigate_to_url reached _handle_delayed_css
    consoleStore    \* window.consoleErrors of the loaded page (entry ids)

sessionVars == <<viewport, driver, procAlive, quitCalls, closeCalls, raised,
                 setupResult, createAttempts, currentUrl, hooksInstalled,
                 navResult, cssHandled, consoleStore>>

(***************************************************************************)
(* State of the page and of one scroll_page / scroll_and_capture_errors    *)
(* call.  Positions are kept multiplied by `steps` (current_position*steps)*)
(* so that step_distance = scroll_distance / steps stays an integer.       *)
(***************************************************************************)
VARIABLES
    pageHeight,       \* document.body.scrollHeight, changed by the page
    innerHeight,      \* window.innerHeight
    scrollMode,       \* the call made: "none", "page" (scroll_page), "capture"
                      \* (scroll_and_capture_errors), "harvest" (get_console_errors)
    scrollPc,         \* "idle", "walk", "done"
    steps,            \* number of walk steps of this call
    total_height,     \* local total_height
    viewport_height,  \* local viewport_height
    scroll_distance,  \* local scroll_distance
    stepIndex,        \* walk steps executed so far
    current_position, \* local current_position, times steps
    targets,          \* the `top:` of every smooth scrollTo issued, times steps
    finalTarget,      \* target of the final window.scrollTo(0, scrollHeight), -1 before
    heightAtFinal,    \* document.body.scrollHeight when the final scroll ran, -1 before
    scroll_errors,    \* all_errors['scroll_errors']
    walk_totals,      \* current_errors['total_errors'] of every walk step so far
    scrollReturn,     \* value returned by scroll_page: "none", "True", "False"
    scrollResult,     \* <<>> or <<dict returned by scroll_and_capture_errors>>
    lastHarvest,      \* <<>> or <<report returned by a direct get_console_errors>>
    lastHarvestIn     \* <<>> or <<what the browser gave that harvest>>

scrollVars == <<pageHeight, innerHeight, scrollMode, scrollPc, steps, total_height,
                viewport_height, scroll_distance, stepIndex, current_position,
                targets, finalTarget, heightAtFinal, scroll_errors, walk_totals,
                scrollReturn, scrollResult,
                lastHarvest, lastHarvestIn>>

(***************************************************************************)
(* State of one _analyze_pagespeed_with_fallback call                      *)
(***************************************************************************)
VARIABLES
    psPc,              \* "start", "done"
    psUrl,             \* the url argument
    primary_results,   \* what PageSpeedAPI.analyze_all_strategies returned
    fallback_ran,      \* SimplePerformanceAnalyzer.analyze_all_strategies was called
    pagespeed_results  \* the dict returned to the caller

scoreVars == <<psPc, psUrl, primary_results, fallback_ran, pagespeed_results>>

(***************************************************************************)
(* State of WebsiteAnalyzer.analyze_all_urls (website_analyzer.py)         *)
(***************************************************************************)
VARIABLES
    urls,              \* self.urls
    modules,           \* self.modules
    batchPc,           \* "urls" (the for loop), "summary", "error_log", "done"
    urlIndex,          \* index in self.urls of the URL being analysed
    vpIndex,           \* index in <<"desktop", "mobile">> of the viewport
    vpPc,              \* position in _analyze_viewport
    viewport_results,  \* the dict _analyze_viewport is filling
    url_results,       \* the dict _analyze_single_url is filling
    self_results,      \* self.results, by URL
    viewport_calls,    \* the (url index, viewport) pairs _analyze_viewport returned for
    sessions_opened,   \* BrowserManager objects entered so far
    sessions_closed,   \* close() calls made by __exit__ so far
    sessions_leaked,   \* browser processes still running when their scope was left
    summary_report,    \* summary_report.txt: "none", "written", "failed"
    error_log_summary  \* error_log_summary.txt: "none", "written", "failed"

batchVars == <<urls, modules, batchPc, urlIndex, vpIndex, vpPc, viewport_results,
               url_results, self_results, viewport_calls, sessions_opened,
               sessions_closed, sessions_leaked, summary_report,
               error_log_summary>>

(***************************************************************************)
(* State of the browser window around BrowserManager.take_screenshot       *)
(***************************************************************************)
VARIABLES
    window_size,   \* size of the browser window, [w, h]
    shotCalls,     \* take_screenshot calls made so far
    shotFullPage,  \* the full_page argument of the last call
    shotResized,   \* the last call resized the window to the content size
    shotReturn     \* value the last call returned: "none", "True", "False"

shotVars == <<window_size, shotCalls, shotFullPage, shotResized, shotReturn>>

(***************************************************************************)
(* BrowserVideoRecorder: a worker thread samples frames while the thread   *)
(* that started it scrolls the page                                        *)
(***************************************************************************)
VARIABLES
    is_recording,  \* BrowserVideoRecorder.is_recording
    mainPc,        \* position of the thread in _record_page_navigation
    workerPc,      \* position of the recording_thread in _record_browser
    frames,        \* length of the worker's frames list
    captures,      \* get_screenshot_as_png calls the worker has begun
    mainCommands,  \* driver commands scroll_page has begun
    driver_users,  \* threads that are inside a command of the shared driver
    video_written  \* imageio.mimsave wrote the output file

recVars == <<is_recording, mainPc, workerPc, frames, captures, mainCommands,
             driver_users, video_written>>

(***************************************************************************)
(* main.py: the command line.  A text is a sequence of one-character       *)
(* strings, so that prefixes and substrings are computed, not assumed.     *)
(***************************************************************************)
VARIABLES
    args_urls,     \* <<>> (no --urls) or <<pieces of args.urls between commas>>
    typed,         \* lines entered at the "URL n:" prompts
    answer,        \* text entered at "Proceed with analysis? (y/N):"
    cliPc,         \* "start", "validate", "confirm", "analyze", "exited"
    main_urls,     \* local urls of main()
    invalid_urls,  \* URLs printed as "Invalid URL"
    file_names,    \* sanitize_filename(url, viewport) of every analysed URL
    exit_cause,    \* "none", "no_urls", "cancelled", "raised", "completed"
    exit_code      \* status the process ended with, -1 while it runs

cliVars == <<args_urls, typed, answer, cliPc, main_urls, invalid_urls,
             file_names, exit_cause, exit_code>>

(***************************************************************************)
(* One WebsiteAnalyzer._take_page_screenshot call and the copy of its      *)
(* result into viewport_results                                            *)
(***************************************************************************)
VARIABLES
    stepPc,          \* "before", "navigated", "captured", "dumped", "returned",
                     \* "copied"
    emitted_before,  \* window.consoleErrors when the step began
    store_after_nav, \* window.consoleErrors when the step's navigate returned
    step_error_info, \* <<>> or <<dict returned by scroll_and_capture_errors>>
    error_file,      \* <<>> or <<error_info written to error_log_path>>
    step_result,     \* <<>> or <<dict returned by _take_page_screenshot>>
    step_vr          \* the three keys of viewport_results the step fills

stepVars == <<stepPc, emitted_before, store_after_nav, step_error_info,
              error_file, step_result, step_vr>>

(***************************************************************************)
(* WebsiteAnalyzer._generate_error_log_summary: what it reads and writes   *)
(***************************************************************************)
VARIABLES
    log_urls,     \* self.urls, the keys of self.results in order
    log_reports,  \* per URL and viewport: <<>> (no error log to read) or
                  \* <<the dict read from error_log_path>>
    log_summary   \* <<>> or <<the counts of "OVERALL ERROR SUMMARY">>

logVars == <<log_urls, log_reports, log_summary>>

vars == <<sessionVars, scrollVars, scoreVars, batchVars, shotVars, recVars, cliVars, stepVars, logVars>>

Viewports == {"desktop", "mobile"}
Urls == {"https://a.example", "https://b.example"}

\* __init__: no driver yet
BrowserManagerInit(vp) ==
    /\ viewport = vp
    /\ driver = "None"
    /\ procAlive = FALSE
    /\ quitCalls = 0
    /\ closeCalls = 0
    /\ raised = FALSE
    /\ setupResult = "notrun"
    /\ createAttempts = <<>>
    /\ currentUrl = "none"
    /\ hooksInstalled = FALSE
    /\ navResult = "none"
    /\ cssHandled = FALSE
    /\ consoleStore = <<>>

\* Outcome of setup_driver as a function of what the environment does:
\*   svcOk      one of the three driver-service strategies succeeded
\*   fullOk     webdriver.Chrome with the full option set succeeded
\*   minimalOk  webdriver.Chrome with the minimal option set succeeded
\*   timeoutsOk set_page_load_timeout / implicitly_wait did not raise
\*   testOk     the data: URL test navigation did not raise
SetupAttempts(svcOk, fullOk) ==
    IF ~svcOk THEN <<>>
    ELSE IF fullOk THEN <<"full">>
    ELSE <<"full", "minimal">>

SetupCreated(svcOk, fullOk, minimalOk) ==
    svcOk /\ (fullOk \/ minimalOk)

SetupReturn(svcOk, fullOk, minimalOk, timeoutsOk, testOk) ==
    IF SetupCreated(svcOk, fullOk, minimalOk) /\ timeoutsOk /\ testOk
    THEN "True" ELSE "False"

\* setup_driver(): never raises (outer try/except returns False)
SetupEffect ==
    /\ \E svcOk, fullOk, minimalOk, timeoutsOk, testOk \in BOOLEAN :
        /\ createAttempts' = SetupAttempts(svcOk, fullOk)
        /\ driver' = IF SetupCreated(svcOk, fullOk, minimalOk)
                     THEN "Chrome" ELSE "None"
        /\ procAlive' = SetupCreated(svcOk, fullOk, minimalOk)
        /\ setupResult' = SetupReturn(svcOk, fullOk, minimalOk, timeoutsOk, testOk)
    /\ raised' = FALSE

setup_driver ==
    /\ setupResult = "notrun"
    /\ SetupEffect
    /\ UNCHANGED <<viewport, quitCalls, closeCalls, currentUrl, hooksInstalled,
                   navResult, cssHandled, consoleStore>>

\* BrowserManager(viewport=vp).__enter__(): __init__, then setup_driver, whose
\* return value is ignored; the object is returned whether or not it has a driver
EnterSession(vp) ==
    /\ SetupEffect
    /\ viewport' = vp
    /\ quitCalls' = 0
    /\ closeCalls' = 0
    /\ currentUrl' = "none"
    /\ hooksInstalled' = FALSE
    /\ navResult' = "none"
    /\ cssHandled' = FALSE
    /\ consoleStore' = <<>>

\* close(): try: if self.driver: self.driver.quit()  except Exception: log
\* self.driver is not reset, so the guard is the same on every call.
\* quitRaises: driver.quit() raised (the except clause swallows it).
CloseQuits == driver # "None"

CloseRaises(quitRaises) == FALSE

\* whether the browser process runs on after close(): driver.quit() ends it
CloseLeavesProcess == IF CloseQuits THEN FALSE ELSE procAlive

CloseEffect(quitRaises) ==
    /\ closeCalls' = closeCalls + 1
    /\ quitCalls' = IF CloseQuits THEN quitCalls + 1 ELSE quitCalls
    /\ procAlive' = CloseLeavesProcess
    /\ raised' = (CloseQuits /\ CloseRaises(quitRaises))
    /\ UNCHANGED <<viewport, driver, setupResult, createAttempts,
                   currentUrl, hooksInstalled, navResult, cssHandled,
                   consoleStore>>

close ==
    /\ closeCalls < MaxCloseCalls
    /\ \E quitRaises \in BOOLEAN : CloseEffect(quitRaises)

\* navigate_to_url(url): driver.get, wait for <body>, inject the error
\* listeners (window.consoleErrors = []), settle, _handle_delayed_css
\* (which swallows its own errors).  Any exception gives False.
\*   getOk / waitOk / injectOk: the corresponding WebDriver call did not raise
\* A driver that is None (AttributeError) or already quit cannot load a page.
NavigateCanLoad == driver # "None" /\ procAlive

\* mutant: True as soon as driver.get went through
NavReturnOnLoad(loaded, hooked) == IF loaded THEN "True" ELSE "False"

\* return True is reached only after get, the wait for <body>, the injected
\* script and _handle_delayed_css; both except clauses return False
NavReturn(loaded, hooked) == IF hooked THEN "True" ELSE "False"

\* the page as navigate_to_url leaves it, given the page it found:
\* a loaded document starts with no window.consoleErrors; the injected
\* script sets it to [] and installs the hooks
NavOutcome(page, url, getOk, waitOk, injectOk) ==
    LET loaded == NavigateCanLoad /\ getOk
        hooked == loaded /\ waitOk /\ injectOk
    IN  [currentUrl |-> IF loaded THEN url ELSE page.currentUrl,
         hooksInstalled |-> IF loaded THEN hooked ELSE page.hooksInstalled,
         consoleStore |-> IF loaded THEN <<>> ELSE page.consoleStore,
         cssHandled |-> hooked,
         navResult |-> NavReturn(loaded, hooked)]

CurrentPage ==
    [currentUrl |-> currentUrl, hooksInstalled |-> hooksInstalled,
     consoleStore |-> consoleStore, navResult |-> navResult,
     cssHandled |-> cssHandled]

\* the session after a call chain that left the page as `page`
SetPage(page) ==
    /\ currentUrl' = page.currentUrl
    /\ hooksInstalled' = page.hooksInstalled
    /\ consoleStore' = page.consoleStore
    /\ navResult' = page.navResult
    /\ cssHandled' = page.cssHandled
    /\ raised' = FALSE
    /\ UNCHANGED <<viewport, driver, procAlive, quitCalls, closeCalls,
                   setupResult, createAttempts>>

NavigateEffect(url, getOk, waitOk, injectOk) ==
    SetPage(NavOutcome(CurrentPage, url, getOk, waitOk, injectOk))

navigate_to_url ==
    /\ setupResult # "notrun"
    /\ \E url \in Urls : \E getOk, waitOk, injectOk \in BOOLEAN :
          NavigateEffect(url, getOk, waitOk, injectOk)

(***************************************************************************)
(* Error harvest: BrowserManager.get_console_errors                        *)
(***************************************************************************)
Min(a, b) == IF a < b THEN a ELSE b

\* what driver.find_elements / element.text can give: visible texts, "" = blank
ElementTexts == {<<>>, <<"msg">>, <<"", "msg">>}
\* what driver.get_log('browser') can give: log levels
BrowserLogs == {<<>>, <<"INFO", "SEVERE">>}

HasText(t) == t # ""
\* for element in error_elements: text = element.text.strip(); if text: append
PageErrors(texts) == SelectSeq(texts, HasText)

IsSevereOrWarning(level) == level \in {"SEVERE", "WARNING"}
\* if log['level'] in ['SEVERE', 'WARNING']: append
FilterLogs(logs) == SelectSeq(logs, IsSevereOrWarning)

\* mutant: the browser-log bucket is left out of the total
HarvestTotalWithoutLogs(c, p, b) == Len(c) + Len(p)

\* total_errors = len(console_errors) + len(page_errors) + len(browser_logs)
HarvestTotal(c, p, b) == Len(c) + Len(p) + Len(b)

HarvestSuccess(c, p, b) ==
    [console_errors |-> c, page_errors |-> p, browser_logs |-> b,
     total_errors |-> HarvestTotal(c, p, b),
     has_errors |-> HarvestTotal(c, p, b) > 0,
     capture_error |-> FALSE]

\* the dict of the outer except clause
HarvestFailure ==
    [console_errors |-> <<>>, page_errors |-> <<>>, browser_logs |-> <<>>,
     total_errors |-> 0, has_errors |-> FALSE, capture_error |-> TRUE]

\* in.store   window.consoleErrors || []       in.scriptOk  execute_script did not raise
\* in.texts   texts of the error elements      in.findOk    find_elements did not raise
\* in.logs    the browser log                  in.logsOk    get_log did not raise
\* Only get_log has a try/except of its own; the other two end in the outer one.
HarvestReport(in) ==
    IF ~in.scriptOk \/ ~in.findOk
    THEN HarvestFailure
    ELSE HarvestSuccess(in.store, PageErrors(in.texts),
                        IF in.logsOk THEN FilterLogs(in.logs) ELSE <<>>)

\* the inputs the browser can give one harvest in the current state
HarvestInputs ==
    [store : {IF hooksInstalled THEN consoleStore ELSE <<>>},
     scriptOk : BOOLEAN, findOk : BOOLEAN, texts : ElementTexts,
     logsOk : BOOLEAN, logs : BrowserLogs]

\* the reports get_console_errors() can return in the current state
HarvestReports == {HarvestReport(in) : in \in HarvestInputs}

\* get_console_errors() called on its own, outside a scroll
get_console_errors ==
    /\ scrollPc = "idle"
    /\ \E in \in HarvestInputs :
        /\ lastHarvestIn' = <<in>>
        /\ lastHarvest' = <<HarvestReport(in)>>
    /\ scrollMode' = "harvest"
    /\ scrollPc' = "done"
    /\ UNCHANGED <<pageHeight, innerHeight, steps,
                   total_height, viewport_height, scroll_distance, stepIndex,
                   current_position, targets, finalTarget, heightAtFinal,
                   scroll_errors, walk_totals, scrollReturn, scrollResult>>

\* the page's own scripts call console.error / throw: the injected hooks push
PageEmitsError ==
    /\ hooksInstalled
    /\ Len(consoleStore) < MaxStore
    /\ consoleStore' = Append(consoleStore, Len(consoleStore) + 1)
    /\ UNCHANGED <<viewport, driver, procAlive, quitCalls, closeCalls, raised,
                   setupResult, createAttempts, currentUrl, hooksInstalled,
                   navResult, cssHandled>>

(***************************************************************************)
(* Scroll driver: scroll_page and scroll_and_capture_errors                *)
(***************************************************************************)
\* the heights document.body.scrollHeight can have after the page reacted
HeightChange(h) == {x \in {h - 1, h, h + 1} : x >= 0 /\ x <= MaxHeight}

\* if updated_height > total_height: total_height = updated_height
AdoptHeight(h0, h1) == IF h1 > h0 THEN h1 ELSE h0

\* mutant: no fallback to the full height for a page shorter than the viewport
ScrollDistanceNoFallback(th, vh) == th - vh

\* scroll_distance = total_height - viewport_height
\* if scroll_distance <= 0: scroll_distance = total_height
ScrollDistance(th, vh) == IF th - vh <= 0 THEN th ELSE th - vh

\* current_position += step_distance
\* if current_position > total_height: current_position = total_height
\* (times n: step_distance * n = scroll_distance)
NextPosition(pos, dist, th, n) == Min(pos + dist, th * n)

\* mutant: the final scroll reuses the measured total_height
FinalScrollTargetMeasured(th, h) == th

\* window.scrollTo(0, document.body.scrollHeight): the height is read again
FinalScrollTarget(th, h) == h

\* total_errors = len(console_errors) + len(page_errors) + len(browser_logs)
\*                + len(scroll_errors)
ScrollTotal(c, p, b, se) == Len(c) + Len(p) + Len(b) + Len(se)

\* all_errors after the final harvest
ScrollSuccess(final, se) ==
    [console_errors |-> final.console_errors,
     page_errors |-> final.page_errors,
     browser_logs |-> final.browser_logs,
     scroll_errors |-> se,
     capture_status |-> "success",
     total_errors |-> ScrollTotal(final.console_errors, final.page_errors,
                                  final.browser_logs, se),
     has_errors |-> ScrollTotal(final.console_errors, final.page_errors,
                                final.browser_logs, se) > 0]

\* the dict of the except clause of scroll_and_capture_errors
ScrollFailure ==
    [console_errors |-> <<>>, page_errors |-> <<>>, browser_logs |-> <<>>,
     scroll_errors |-> <<>>, capture_status |-> "failed",
     total_errors |-> 0, has_errors |-> FALSE]

\* mutant: every checkpoint is recorded, with or without errors
RecordCheckpointAlways(se, pos, report) ==
    Append(se, [position |-> pos, errors |-> report])

\* if current_errors['total_errors'] > 0: scroll_errors.append({position, errors})
RecordCheckpoint(se, pos, report) ==
    IF report.total_errors > 0
    THEN Append(se, [position |-> pos, errors |-> report])
    ELSE se

\* an execute_script raised: the except clause returns False / the failed dict
ScrollAbort(mode) ==
    /\ scrollPc' = "done"
    /\ scrollMode' = mode
    /\ scrollReturn' = IF mode = "page" THEN "False" ELSE scrollReturn
    /\ scrollResult' = IF mode = "capture" THEN <<ScrollFailure>> ELSE scrollResult

\* measure, probe the bottom, measure again, go back to the top, schedule
ScrollBegin(mode, n) ==
    /\ scrollPc = "idle"
    /\ \E scriptOk \in BOOLEAN : \E h1 \in HeightChange(pageHeight) :
        IF scriptOk /\ NavigateCanLoad
        THEN /\ pageHeight' = h1
             /\ total_height' = AdoptHeight(pageHeight, h1)
             /\ viewport_height' = innerHeight
             /\ scroll_distance' = ScrollDistance(AdoptHeight(pageHeight, h1), innerHeight)
             /\ steps' = n
             /\ scrollMode' = mode
             /\ scrollPc' = "walk"
             /\ UNCHANGED <<scrollReturn, scrollResult>>
        ELSE /\ ScrollAbort(mode)
             /\ UNCHANGED <<pageHeight, total_height, viewport_height,
                            scroll_distance, steps>>
    /\ stepIndex' = 0
    /\ current_position' = 0
    /\ targets' = <<>>
    /\ scroll_errors' = <<>>
    /\ walk_totals' = <<>>
    /\ UNCHANGED <<innerHeight, finalTarget, heightAtFinal, lastHarvest,
                   lastHarvestIn>>

\* scroll_page(duration, steps)
scroll_page == \E n \in 1..MaxSteps : ScrollBegin("page", n)

\* scroll_and_capture_errors(duration): steps = 10 in the code
scroll_and_capture_errors == ScrollBegin("capture", CaptureSteps)

\* one iteration of `for i in range(steps)`
ScrollStep ==
    /\ scrollPc = "walk"
    /\ stepIndex < steps
    /\ \E scriptOk \in BOOLEAN : \E hNew \in HeightChange(pageHeight) :
       \E current_errors \in HarvestReports :
        IF scriptOk
        THEN LET pos == NextPosition(current_position, scroll_distance,
                                     total_height, steps)
             IN  /\ current_position' = pos
                 /\ targets' = Append(targets, pos)
                 /\ stepIndex' = stepIndex + 1
                 /\ pageHeight' = hNew
                 /\ scroll_errors' =
                        IF scrollMode = "capture"
                        THEN RecordCheckpoint(scroll_errors, pos, current_errors)
                        ELSE scroll_errors
                 /\ walk_totals' =
                        IF scrollMode = "capture"
                        THEN Append(walk_totals, current_errors.total_errors)
                        ELSE walk_totals
                 /\ UNCHANGED <<scrollMode, scrollPc, scrollReturn, scrollResult>>
        ELSE /\ ScrollAbort(scrollMode)
             /\ UNCHANGED <<current_position, targets, stepIndex, pageHeight,
                            scroll_errors, walk_totals>>
    /\ UNCHANGED <<innerHeight, steps, total_height, viewport_height,
                   scroll_distance, finalTarget, heightAtFinal, lastHarvestIn,
                   lastHarvest>>

\* after the loop: the final scroll to the bottom, then the bottom check
\* (scroll_page) or the final harvest and the totals (capture)
ScrollFinish ==
    /\ scrollPc = "walk"
    /\ stepIndex = steps
    /\ \E finalOk, verifyOk \in BOOLEAN : \E final_errors \in HarvestReports :
        IF finalOk
        THEN /\ finalTarget' = FinalScrollTarget(total_height, pageHeight)
             /\ heightAtFinal' = pageHeight
             /\ scrollPc' = "done"
             /\ IF scrollMode = "capture"
                THEN /\ scrollResult' = <<ScrollSuccess(final_errors, scroll_errors)>>
                     /\ UNCHANGED scrollReturn
                ELSE /\ scrollReturn' = IF verifyOk THEN "True" ELSE "False"
                     /\ UNCHANGED scrollResult
             /\ UNCHANGED scrollMode
        ELSE /\ ScrollAbort(scrollMode)
             /\ UNCHANGED <<finalTarget, heightAtFinal>>
    /\ UNCHANGED <<pageHeight, innerHeight, steps, total_height, viewport_height,
                   scroll_distance, stepIndex, current_position, targets,
                   scroll_errors, walk_totals, lastHarvestIn, lastHarvest>>

\* no scroll call in progress, nothing harvested
ScrollIdle(h, vh) ==
    /\ pageHeight = h
    /\ innerHeight = vh
    /\ scrollMode = "none"
    /\ scrollPc = "idle"
    /\ steps = 0
    /\ total_height = 0
    /\ viewport_height = 0
    /\ scroll_distance = 0
    /\ stepIndex = 0
    /\ current_position = 0
    /\ targets = <<>>
    /\ finalTarget = -1
    /\ heightAtFinal = -1
    /\ scroll_errors = <<>>
    /\ walk_totals = <<>>
    /\ scrollReturn = "none"
    /\ scrollResult = <<>>
    /\ lastHarvest = <<>>
    /\ lastHarvestIn = <<>>

\* a session whose setup_driver and navigate_to_url(url) both returned True
SessionNavigated(vp, url) ==
    /\ viewport = vp
    /\ driver = "Chrome"
    /\ procAlive = TRUE
    /\ quitCalls = 0
    /\ closeCalls = 0
    /\ raised = FALSE
    /\ setupResult = "True"
    /\ createAttempts = <<"full">>
    /\ currentUrl = url
    /\ hooksInstalled = TRUE
    /\ navResult = "True"
    /\ cssHandled = TRUE
    /\ consoleStore = <<>>

(***************************************************************************)
(* Performance scorer: PageSpeedAPI, SimplePerformanceAnalyzer and         *)
(* WebsiteAnalyzer._analyze_pagespeed_with_fallback                        *)
(* A result dict is a record; a key the dict lacks has the value           *)
(* error = "", score = -1, fallback = FALSE, note = "".                    *)
(***************************************************************************)
\* PAGESPEED_CONFIG['strategies'], in order
Strategies == <<"mobile", "desktop">>
StrategySet == {Strategies[i] : i \in 1..Len(Strategies)}

\* str(e) of what requests.get / raise_for_status / response.json can raise
ApiErrors == {"429 Client Error: Too Many Requests",
              "500 Server Error: Internal Server Error",
              "HTTPSConnectionPool: Max retries exceeded",
              "Expecting value: line 1 column 1 (char 0)"}
\* performance.get('score', 0) * 100
ApiScores == {35, 90}
\* loadEventEnd - navigationStart (ms); negative while the load event is pending
LoadTimes == {-1, 2000, 2001, 3000, 3001, 5000, 5001, 6000}
\* page_height * page_width (px^2)
PageSizes == {0, 1000000, 1000001, 2000000, 2000001, 3000000}

\* '429' in str(result['error'])
Mentions429(msg) == msg \in {"429 Client Error: Too Many Requests"}

\* _get_performance_metrics returns {} when reading the timings fails
NoMetrics == [measured |-> FALSE, load_time |-> 0, page_size |-> 0]
Measured(lt, ps) == [measured |-> TRUE, load_time |-> lt, page_size |-> ps]
\* the audits of the API answer carry no load_time / page_size
ApiMetrics == [measured |-> TRUE, load_time |-> 0, page_size |-> 0]

ErrorResult(msg) ==
    [error |-> msg, url |-> "", strategy |-> "", score |-> -1,
     metrics |-> NoMetrics, fallback |-> FALSE, note |-> ""]

ScoreResult(url, strategy, score, metrics) ==
    [error |-> "", url |-> url, strategy |-> strategy, score |-> score,
     metrics |-> metrics, fallback |-> FALSE, note |-> ""]

\* 'error' in result
HasError(r) == r.error # ""

\* PageSpeedAPI.analyze_url: every exception becomes {'error': str(e)}
PrimaryOutcomes ==
    [ok : {TRUE}, score : ApiScores, error : {""}]
        \cup [ok : {FALSE}, score : {0}, error : ApiErrors]

ApiResult(url, strategy, out) ==
    IF out.ok THEN ScoreResult(url, strategy, out.score, ApiMetrics)
    ELSE ErrorResult(out.error)

\* mutant: a threshold itself already costs points (>= for >)
LoadPenaltyInclusive(load_time) ==
    IF load_time >= 5000 THEN 30
    ELSE IF load_time >= 3000 THEN 20
    ELSE IF load_time >= 2000 THEN 10
    ELSE 0

\* if load_time > 5000: 30 elif load_time > 3000: 20 elif load_time > 2000: 10
LoadPenalty(load_time) ==
    IF load_time > 5000 THEN 30
    ELSE IF load_time > 3000 THEN 20
    ELSE IF load_time > 2000 THEN 10
    ELSE 0

\* if page_size > 2000000: 20 elif page_size > 1000000: 10
SizePenalty(page_size) ==
    IF page_size > 2000000 THEN 20
    ELSE IF page_size > 1000000 THEN 10
    ELSE 0

\* _calculate_performance_score(metrics): metrics.get(key, 0), the two
\* deductions, max(0, min(100, score)), round
CalculatePerformanceScore(metrics) ==
    LET score == 100 - LoadPenalty(metrics.load_time) - SizePenalty(metrics.page_size)
        capped == IF score > 100 THEN 100 ELSE score
    IN  IF capped < 0 THEN 0 ELSE capped

\* what the browser gives SimplePerformanceAnalyzer.analyze_url
FallbackOutcomes ==
    [nav : {"fail"}, metrics : {NoMetrics}]
        \cup [nav : {"ok"}, metrics : {NoMetrics}]
        \cup [nav : {"ok"},
              metrics : {Measured(lt, ps) : lt \in LoadTimes, ps \in PageSizes}]

\* SimplePerformanceAnalyzer.analyze_url
SimpleResult(url, strategy, out) ==
    IF out.nav = "fail" THEN ErrorResult("Failed to navigate to URL")
    ELSE ScoreResult(url, strategy, CalculatePerformanceScore(out.metrics), out.metrics)

\* mutant: only the first strategy's result is inspected
ApiFailedFirstOnly(results) ==
    HasError(results[Strategies[1]]) /\ Mentions429(results[Strategies[1]].error)

\* for strategy, result in results.items():
\*     if 'error' in result and '429' in str(result['error']): api_failed = True
ApiFailed(results) ==
    \E st \in StrategySet : HasError(results[st]) /\ Mentions429(results[st].error)

\* if 'error' not in results[strategy]: fallback = True, note = ...
MarkFallback(r, note) ==
    IF HasError(r) THEN r ELSE [r EXCEPT !.fallback = TRUE, !.note = note]

\* the page after SimplePerformanceAnalyzer.analyze_all_strategies navigated
\* once per strategy, in order
RECURSIVE PageAfterFallback(_, _, _, _)
PageAfterFallback(page, url, fb, i) ==
    IF i > Len(Strategies) THEN page
    ELSE PageAfterFallback(
            NavOutcome(page, url, fb[Strategies[i]].nav = "ok", TRUE, TRUE),
            url, fb, i + 1)

\* nothing in the try block raises: both analyze_url methods end in
\* `except Exception: return {'error': str(e)}`, so the except branch of
\* _analyze_pagespeed_with_fallback ('... due to API error') is never entered
PrimaryResults(url, prim) ==
    [st \in StrategySet |-> ApiResult(url, st, prim[st])]

FallbackResults(url, fb) ==
    [st \in StrategySet |->
        MarkFallback(SimpleResult(url, st, fb[st]),
                     "Using fallback analyzer due to API rate limit")]

analyze_pagespeed_with_fallback ==
    /\ psPc = "start"
    /\ \E prim \in [StrategySet -> PrimaryOutcomes] :
        LET results == PrimaryResults(psUrl, prim)
        IN  /\ primary_results' = results
            /\ fallback_ran' = ApiFailed(results)
            /\ IF ApiFailed(results)
               THEN \E fb \in [StrategySet -> FallbackOutcomes] :
                      /\ pagespeed_results' = FallbackResults(psUrl, fb)
                      /\ SetPage(PageAfterFallback(CurrentPage, psUrl, fb, 1))
               ELSE /\ pagespeed_results' = results
                    /\ UNCHANGED sessionVars
    /\ psPc' = "done"
    /\ UNCHANGED psUrl

ScoreIdle(url) ==
    /\ psPc = "start"
    /\ psUrl = url
    /\ primary_results = [st \in StrategySet |-> ErrorResult("")]
    /\ fallback_ran = FALSE
    /\ pagespeed_results = [st \in StrategySet |-> ErrorResult("")]

(***************************************************************************)
(* Screenshot: BrowserManager.take_screenshot                              *)
(***************************************************************************)
\* BROWSER_CONFIG['window_size'][viewport]
ConfiguredSize(vp) ==
    IF vp = "desktop" THEN [w |-> 1920, h |-> 1080] ELSE [w |-> 375, h |-> 667]

\* document.body.scrollWidth / scrollHeight of the pages photographed
ContentWidths == {375, 1920, 2400}
ContentHeights == {600, 3000, 9000}

\* the window after take_screenshot(filepath, full_page):
\*   dimsOk    reading scrollHeight / scrollWidth did not raise
\*   resizeOk  set_window_size(total_width, total_height) did not raise
\*   saveOk    save_screenshot did not raise
\*   restoreOk set_window_size(window_size[0], window_size[1]) did not raise
\* the restoring call is the statement after save_screenshot in the try block,
\* not a finally clause
ShotWindow(win, vp, content, full_page, dimsOk, resizeOk, saveOk, restoreOk) ==
    IF ~full_page \/ ~dimsOk \/ ~resizeOk THEN win
    ELSE IF saveOk /\ restoreOk THEN ConfiguredSize(vp)
    ELSE content

ShotReturn(full_page, dimsOk, resizeOk, saveOk, restoreOk) ==
    IF full_page
    THEN (IF dimsOk /\ resizeOk /\ saveOk /\ restoreOk THEN "True" ELSE "False")
    ELSE (IF saveOk THEN "True" ELSE "False")

take_screenshot ==
    /\ shotCalls < MaxShots
    /\ \E full_page, dimsOk, resizeOk, saveOk, restoreOk \in BOOLEAN :
       \E cw \in ContentWidths : \E ch \in ContentHeights :
        /\ window_size' = ShotWindow(window_size, viewport, [w |-> cw, h |-> ch],
                                     full_page, dimsOk, resizeOk, saveOk, restoreOk)
        /\ shotReturn' = ShotReturn(full_page, dimsOk, resizeOk, saveOk, restoreOk)
        /\ shotResized' = (full_page /\ dimsOk /\ resizeOk)
        /\ shotFullPage' = full_page
    /\ shotCalls' = shotCalls + 1

\* no take_screenshot call yet; the window as --window-size made it
ShotIdle ==
    /\ window_size = ConfiguredSize(viewport)
    /\ shotCalls = 0
    /\ shotFullPage = FALSE
    /\ shotResized = FALSE
    /\ shotReturn = "none"

(***************************************************************************)
(* Batch orchestration: WebsiteAnalyzer.analyze_all_urls                   *)
(***************************************************************************)
\* for viewport in ['desktop', 'mobile']
ViewportOrder == <<"desktop", "mobile">>

\* the modules the command line can enable
ModuleNames == {"score", "screenshot", "record"}

\* the arguments of WebsiteAnalyzer(urls, modules): one URL with every
\* choice of modules, two URLs with one module each
BatchInputs ==
    {[urls |-> <<"https://a.example">>, modules |-> ms] :
        ms \in (SUBSET ModuleNames) \ {{}}}
    \cup {[urls |-> <<"https://a.example", "https://b.example">>,
           modules |-> {m}] : m \in ModuleNames}

\* viewport_results as _analyze_viewport creates it; error_log_path,
\* error_count and pagespeed_files are keys added by the steps ("absent", and
\* the .get defaults 0, until then); pagespeed_files is the number of entries
NoPagespeedResults == [st \in StrategySet |-> ErrorResult("")]

NewViewportResults ==
    [video_path |-> "None", screenshot_path |-> "None",
     error_log_path |-> "absent", error_count |-> 0,
     pagespeed_results |-> NoPagespeedResults, pagespeed_files |-> 0,
     page_info |-> "{}", errors |-> <<>>]

\* summary as _calculate_summary creates it; a score of -1 stands for None,
\* average_score is kept as the sum and the number of the scores averaged
NewSummary ==
    [desktop_score |-> -1, mobile_score |-> -1, score_sum |-> 0,
     score_count |-> 0, files_generated |-> 0, errors_count |-> 0]

\* url_results as _analyze_single_url creates it
NewUrlResults ==
    [desktop |-> NewViewportResults, mobile |-> NewViewportResults,
     summary |-> NewSummary]

\* an entry of self.results: absent, or the url_results of the URL
NoEntry == [kind |-> "absent", data |-> NewUrlResults]
ResultEntry(r) == [kind |-> "results", data |-> r]

\* mutant: every step runs whatever was requested
ModuleEnabledAlways(m, ms) == TRUE

\* if 'record' in self.modules / 'screenshot' in ... / 'score' in ...
ModuleEnabled(m, ms) == m \in ms

CurrentUrl == urls[urlIndex]
CurrentViewport == ViewportOrder[vpIndex]

\* the first step of the with body
\* with BrowserManager(viewport=viewport) as browser:
AnalyzeViewportEnter ==
    /\ batchPc = "urls"
    /\ vpPc = "enter"
    /\ EnterSession(CurrentViewport)
    /\ viewport_results' = NewViewportResults
    /\ sessions_opened' = sessions_opened + 1
    /\ vpPc' = "record"
    /\ UNCHANGED <<urls, modules, batchPc, urlIndex, vpIndex, url_results,
                   self_results, viewport_calls, sessions_closed, sessions_leaked, summary_report,
                   error_log_summary>>

\* _record_page_navigation: navigate, start the recorder, scroll_page, stop;
\* every exception (also the two it raises itself) is caught and gives None
\*   startOk: recorder.start_recording() returned True
RecordVideoPath(navOk, startOk) ==
    IF navOk /\ startOk THEN "video" ELSE "None"

\* 1. if 'record' in self.modules: video_path = self._record_page_navigation(...)
RecordStep ==
    /\ batchPc = "urls"
    /\ vpPc = "record"
    /\ IF ModuleEnabled("record", modules)
       THEN \E getOk, waitOk, injectOk, startOk \in BOOLEAN :
              LET page == NavOutcome(CurrentPage, CurrentUrl, getOk, waitOk, injectOk)
              IN  /\ SetPage(page)
                  /\ viewport_results' =
                       [viewport_results EXCEPT !.video_path =
                           RecordVideoPath(page.navResult = "True", startOk)]
       ELSE UNCHANGED <<sessionVars, viewport_results>>
    /\ vpPc' = "screenshot"
    /\ UNCHANGED <<urls, modules, batchPc, urlIndex, vpIndex, url_results,
                   self_results, viewport_calls, sessions_opened, sessions_closed, sessions_leaked,
                   summary_report, error_log_summary>>

\* what scroll_and_capture_errors can hand to _take_page_screenshot
CaptureReports ==
    {ScrollFailure,
     ScrollSuccess(HarvestSuccess(<<>>, <<>>, <<>>), <<>>),
     ScrollSuccess(HarvestSuccess(<<>>, <<"msg">>, <<"SEVERE">>), <<>>)}

\* the dict _take_page_screenshot returns
\*   dumpOk: writing the error log did not raise
\*   shotOk: browser.take_screenshot returned True
ScreenshotResults(navOk, error_info, dumpOk, shotOk) ==
    IF navOk /\ dumpOk /\ shotOk
    THEN [page_screenshot |-> "png", error_log |-> "json",
          error_count |-> error_info.total_errors]
    ELSE [page_screenshot |-> "None", error_log |-> "None", error_count |-> 0]

\* 2. if 'screenshot' in self.modules: the three keys are copied
ScreenshotStep ==
    /\ batchPc = "urls"
    /\ vpPc = "screenshot"
    /\ IF ModuleEnabled("screenshot", modules)
       THEN \E getOk, dumpOk, shotOk \in BOOLEAN : \E error_info \in CaptureReports :
              LET page == NavOutcome(CurrentPage, CurrentUrl, getOk, TRUE, TRUE)
                  shot == ScreenshotResults(page.navResult = "True", error_info,
                                            dumpOk, shotOk)
              IN  /\ SetPage(page)
                  /\ viewport_results' =
                       [viewport_results EXCEPT
                           !.screenshot_path = shot.page_screenshot,
                           !.error_log_path = shot.error_log,
                           !.error_count = shot.error_count]
       ELSE UNCHANGED <<sessionVars, viewport_results>>
    /\ vpPc' = "page_info"
    /\ UNCHANGED <<urls, modules, batchPc, urlIndex, vpIndex, url_results,
                   self_results, viewport_calls, sessions_opened, sessions_closed, sessions_leaked,
                   summary_report, error_log_summary>>

\* get_page_info(): the dict of title, url and sizes, {} when a driver call raises
PageInfo == IF NavigateCanLoad THEN "info" ELSE "{}"

\* 3. viewport_results['page_info'] = browser.get_page_info()
PageInfoStep ==
    /\ batchPc = "urls"
    /\ vpPc = "page_info"
    /\ viewport_results' = [viewport_results EXCEPT !.page_info = PageInfo]
    /\ vpPc' = "score"
    /\ UNCHANGED <<sessionVars, urls, modules, batchPc, urlIndex, vpIndex,
                   url_results, self_results, viewport_calls, sessions_opened,
                   sessions_closed, sessions_leaked, summary_report, error_log_summary>>

\* the answers of the API and of the browser drawn for a batch run: each the
\* same for all strategies but for a rate limit that hits "mobile" only
BatchPrimaryInputs ==
    {[st \in StrategySet |-> [ok |-> TRUE, score |-> 90, error |-> ""]],
     [st \in StrategySet |->
         [ok |-> FALSE, score |-> 0,
          error |-> "500 Server Error: Internal Server Error"]],
     [st \in StrategySet |->
         IF st = "mobile"
         THEN [ok |-> FALSE, score |-> 0,
               error |-> "429 Client Error: Too Many Requests"]
         ELSE [ok |-> TRUE, score |-> 90, error |-> ""]]}

\* the fallback analyzer on this session: it navigates with browser_manager,
\* so a session that cannot load a page fails for every strategy
BatchFallbackInput ==
    [st \in StrategySet |->
        IF NavigateCanLoad THEN [nav |-> "ok", metrics |-> Measured(6000, 3000000)]
        ELSE [nav |-> "fail", metrics |-> NoMetrics]]

\* 'error' not in result and 'score' in result
HasScore(r) == ~HasError(r) /\ r.score # -1

\* _save_pagespeed_results: the JSON, the summary and the chart, and the score
\* picture when _generate_score_screenshot finds a score to draw
SavedFiles(pagespeed) ==
    3 + (IF \E st \in StrategySet : HasScore(pagespeed[st]) THEN 1 ELSE 0)

\* 4./5. if 'score' in self.modules: analyse with fallback, save the results
ScoreStep ==
    /\ batchPc = "urls"
    /\ vpPc = "score"
    /\ IF ModuleEnabled("score", modules)
       THEN \E prim \in BatchPrimaryInputs :
              LET primary == PrimaryResults(CurrentUrl, prim)
                  fb == BatchFallbackInput
                  pagespeed == IF ApiFailed(primary)
                               THEN FallbackResults(CurrentUrl, fb)
                               ELSE primary
              IN  /\ IF ApiFailed(primary)
                     THEN SetPage(PageAfterFallback(CurrentPage, CurrentUrl, fb, 1))
                     ELSE UNCHANGED sessionVars
                  /\ viewport_results' =
                       [viewport_results EXCEPT
                           !.pagespeed_results = pagespeed,
                           !.pagespeed_files = SavedFiles(pagespeed)]
       ELSE UNCHANGED <<sessionVars, viewport_results>>
    /\ vpPc' = "exit"
    /\ UNCHANGED <<urls, modules, batchPc, urlIndex, vpIndex, url_results,
                   self_results, viewport_calls, sessions_opened, sessions_closed, sessions_leaked,
                   summary_report, error_log_summary>>

\* an exception leaves the with body: every helper of the body catches its
\* own, so this is one raised between or below them (MemoryError and the like)
BodyRaises ==
    /\ batchPc = "urls"
    /\ vpPc \in {"record", "screenshot", "page_info", "score"}
    /\ vpPc' = "exit_raised"
    /\ UNCHANGED <<sessionVars, urls, modules, batchPc, urlIndex, vpIndex,
                   viewport_results, url_results, self_results, viewport_calls,
                   sessions_opened, sessions_closed, sessions_leaked, summary_report,
                   error_log_summary>>

\* mutant: the session is closed only when the body ended without an exception
ExitClosesOnSuccessOnly(excPending) == ~excPending

\* __exit__(exc_type, exc_val, exc_tb): self.close(), whatever the arguments;
\* it returns None, so a pending exception goes on to the except clause
ExitCloses(excPending) == TRUE

\* except Exception as e: viewport_results['errors'].append(error_msg)
ViewportReturn(vr, excPending) ==
    IF excPending THEN [vr EXCEPT !.errors = Append(@, "Error in analysis")]
    ELSE vr

\* `browser` is a local of _analyze_viewport: after the return no reference
\* to the BrowserManager is left, only its browser process if close() did not
\* end it
DropSession ==
    /\ viewport' = "desktop"
    /\ driver' = "None"
    /\ procAlive' = FALSE
    /\ quitCalls' = 0
    /\ closeCalls' = 0
    /\ raised' = FALSE
    /\ setupResult' = "notrun"
    /\ createAttempts' = <<>>
    /\ currentUrl' = "none"
    /\ hooksInstalled' = FALSE
    /\ navResult' = "none"
    /\ cssHandled' = FALSE
    /\ consoleStore' = <<>>

\* the with statement is left (__exit__), the except clause runs if an
\* exception is pending, _analyze_viewport returns and _analyze_single_url
\* stores the dict: url_results[viewport] = viewport_results
AnalyzeViewportExit ==
    /\ batchPc = "urls"
    /\ vpPc \in {"exit", "exit_raised"}
    /\ LET closes == ExitCloses(vpPc = "exit_raised")
           alive == IF closes THEN CloseLeavesProcess ELSE procAlive
       IN  /\ sessions_closed' = sessions_closed + (IF closes THEN 1 ELSE 0)
           /\ sessions_leaked' = sessions_leaked + (IF alive THEN 1 ELSE 0)
    /\ DropSession
    /\ url_results' =
         [url_results EXCEPT ![CurrentViewport] =
             ViewportReturn(viewport_results, vpPc = "exit_raised")]
    /\ viewport_results' = NewViewportResults
    /\ viewport_calls' = viewport_calls \cup {<<urlIndex, CurrentViewport>>}
    /\ IF vpIndex < Len(ViewportOrder)
       THEN vpIndex' = vpIndex + 1 /\ vpPc' = "enter"
       ELSE vpIndex' = vpIndex /\ vpPc' = "summary"
    /\ UNCHANGED <<urls, modules, batchPc, urlIndex, self_results, sessions_opened,
                   summary_report, error_log_summary>>

\* _calculate_summary(url_results)
FilesOf(vr) ==
    (IF vr.video_path # "None" THEN 1 ELSE 0)
    + (IF vr.screenshot_path # "None" THEN 1 ELSE 0)
    + (IF vr.error_log_path \notin {"None", "absent"} THEN 1 ELSE 0)
    + vr.pagespeed_files

\* mutant: the score of the first strategy, whatever the viewport
ViewportScoreFirstStrategy(vr, vp) ==
    IF vr.pagespeed_results[Strategies[1]].score # -1
        /\ ~HasError(vr.pagespeed_results[Strategies[1]])
    THEN vr.pagespeed_results[Strategies[1]].score ELSE -1

\* for strategy, result in pagespeed_results.items():
\*     if strategy == viewport and 'score' in result: summary[..] = result['score']
ViewportScore(vr, vp) ==
    IF vr.pagespeed_results[vp].score # -1 /\ ~HasError(vr.pagespeed_results[vp])
    THEN vr.pagespeed_results[vp].score ELSE -1

CalculateSummary(r) ==
    LET d == ViewportScore(r.desktop, "desktop")
        m == ViewportScore(r.mobile, "mobile")
    IN  [desktop_score |-> d,
         mobile_score |-> m,
         score_sum |-> (IF d # -1 THEN d ELSE 0) + (IF m # -1 THEN m ELSE 0),
         score_count |-> (IF d # -1 THEN 1 ELSE 0) + (IF m # -1 THEN 1 ELSE 0),
         files_generated |-> FilesOf(r.desktop) + FilesOf(r.mobile),
         errors_count |-> Len(r.desktop.errors) + Len(r.mobile.errors)]

\* mutant: the loop over self.urls ends after its first URL
MoreUrlsFirstOnly(i, n) == FALSE

\* for i, url in enumerate(self.urls, 1): another URL follows the i-th of n
MoreUrls(i, n) == i < n

\* _analyze_single_url returns after the viewport loop and the summary;
\* analyze_all_urls stores self.results[url] = url_results and goes on.
\* Its except clause ({'error': str(e)}) is not entered: _analyze_viewport
\* catches every Exception and _calculate_summary only reads the dicts.
FinishUrl ==
    /\ batchPc = "urls"
    /\ vpPc = "summary"
    /\ self_results' = [self_results EXCEPT ![CurrentUrl] =
          ResultEntry([url_results EXCEPT !.summary = CalculateSummary(url_results)])]
    /\ url_results' = NewUrlResults
    /\ vpIndex' = 1
    /\ vpPc' = "enter"
    /\ IF MoreUrls(urlIndex, Len(urls))
       THEN urlIndex' = urlIndex + 1 /\ batchPc' = "urls"
       ELSE urlIndex' = urlIndex /\ batchPc' = "summary"
    /\ UNCHANGED <<sessionVars, urls, modules, viewport_results, viewport_calls,
                   sessions_opened, sessions_closed, sessions_leaked, summary_report,
                   error_log_summary>>

\* _generate_summary_report(): writes summary_report.txt from self.results;
\* the output directory was created, and analysis.log opened in it, by __init__
GenerateSummaryReport ==
    /\ batchPc = "summary"
    /\ summary_report' = "written"
    /\ batchPc' = "error_log"
    /\ UNCHANGED <<sessionVars, urls, modules, urlIndex, vpIndex, vpPc,
                   viewport_results, url_results, self_results, viewport_calls,
                   sessions_opened, sessions_closed, sessions_leaked, error_log_summary>>

\* _generate_error_log_summary(): writes error_log_summary.txt; a log that
\* cannot be read is reported inside the file (inner try/except)
GenerateErrorLogSummary ==
    /\ batchPc = "error_log"
    /\ error_log_summary' = "written"
    /\ batchPc' = "done"
    /\ UNCHANGED <<sessionVars, urls, modules, urlIndex, vpIndex, vpPc,
                   viewport_results, url_results, self_results, viewport_calls,
                   sessions_opened, sessions_closed, sessions_leaked, summary_report>>

\* WebsiteAnalyzer(urls, modules) before analyze_all_urls
BatchStart(us, ms) ==
    /\ urls = us
    /\ modules = ms
    /\ batchPc = "urls"
    /\ urlIndex = 1
    /\ vpIndex = 1
    /\ vpPc = "enter"
    /\ viewport_results = NewViewportResults
    /\ url_results = NewUrlResults
    /\ self_results = [u \in Urls |-> NoEntry]
    /\ viewport_calls = {}
    /\ sessions_opened = 0
    /\ sessions_closed = 0
    /\ sessions_leaked = 0
    /\ summary_report = "none"
    /\ error_log_summary = "none"

\* no batch is running
BatchIdle ==
    /\ urls = <<>>
    /\ modules = {}
    /\ batchPc = "idle"
    /\ urlIndex = 1
    /\ vpIndex = 1
    /\ vpPc = "enter"
    /\ viewport_results = NewViewportResults
    /\ url_results = NewUrlResults
    /\ self_results = [u \in Urls |-> NoEntry]
    /\ viewport_calls = {}
    /\ sessions_opened = 0
    /\ sessions_closed = 0
    /\ sessions_leaked = 0
    /\ summary_report = "none"
    /\ error_log_summary = "none"

(***************************************************************************)
(* main.py and config.sanitize_filename                                    *)
(***************************************************************************)
T_http == <<"h", "t", "t", "p">>
T_https == <<"h", "t", "t", "p", "s">>
T_http_prefix == <<"h", "t", "t", "p", ":", "/", "/">>
T_https_prefix == <<"h", "t", "t", "p", "s", ":", "/", "/">>
T_ftp_prefix == <<"f", "t", "p", ":", "/", "/">>
T_www == <<"w", "w", "w", ".">>
T_com == <<".", "c", "o", "m">>
T_org == <<".", "o", "r", "g">>
T_net == <<".", "n", "e", "t">>
T_example == <<"e", "x", "a", "m", "p", "l", "e">>

\* str.startswith(p)
StartsWith(s, p) == Len(s) >= Len(p) /\ SubSeq(s, 1, Len(p)) = p

\* p in s
Contains(s, p) ==
    \E i \in 1..(Len(s) - Len(p) + 1) : SubSeq(s, i, i + Len(p) - 1) = p

\* str.strip(), for texts whose only white space is " "
RECURSIVE LStrip(_)
LStrip(s) == IF s # <<>> /\ Head(s) = " " THEN LStrip(Tail(s)) ELSE s

RECURSIVE RStrip(_)
RStrip(s) ==
    IF s # <<>> /\ s[Len(s)] = " " THEN RStrip(SubSeq(s, 1, Len(s) - 1)) ELSE s

Strip(s) == RStrip(LStrip(s))

\* str.replace(old, new): every occurrence, left to right, not overlapping
RECURSIVE Replace(_, _, _)
Replace(s, old, new) ==
    IF Len(s) < Len(old) THEN s
    ELSE IF StartsWith(s, old)
           THEN new \o Replace(SubSeq(s, Len(old) + 1, Len(s)), old, new)
           ELSE <<Head(s)>> \o Replace(Tail(s), old, new)

\* URL_CONFIG['allowed_schemes'] and URL_CONFIG['max_urls']
allowed_schemes == {T_http, T_https}
max_urls == 4

\* "Add protocol if missing"
AddProtocol(url) ==
    IF StartsWith(url, T_http_prefix) \/ StartsWith(url, T_https_prefix)
      THEN url
      ELSE T_https_prefix \o url

\* any(scheme in url for scheme in allowed_schemes)
SchemeAllowed(url) == \E scheme \in allowed_schemes : Contains(url, scheme)

\* validate_urls: [valid |-> valid_urls, invalid |-> the URLs printed]
RECURSIVE validate_urls(_)
validate_urls(us) ==
    IF us = <<>> THEN [valid |-> <<>>, invalid |-> <<>>]
    ELSE LET url == AddProtocol(Strip(Head(us)))
             rest == validate_urls(Tail(us))
         IN  IF SchemeAllowed(url)
               THEN [valid |-> <<url>> \o rest.valid, invalid |-> rest.invalid]
               ELSE [valid |-> rest.valid, invalid |-> <<url>> \o rest.invalid]

\* get_urls_interactive: an empty line before the first URL is asked again,
\* an empty line after it ends the input, as does the max_urls-th URL
RECURSIVE get_urls_interactive(_, _)
get_urls_interactive(lines, acc) ==
    IF Len(acc) >= max_urls \/ lines = <<>> THEN acc
    ELSE LET url == Strip(Head(lines))
         IN  IF url = <<>>
               THEN IF acc # <<>> THEN acc
                    ELSE get_urls_interactive(Tail(lines), acc)
               ELSE get_urls_interactive(Tail(lines), Append(acc, AddProtocol(url)))

\* OUTPUT_CONFIG['file_naming']['suffixes']
Suffix(vp) ==
    IF vp = "desktop" THEN <<"d", "e", "s", "k", "t", "o", "p">>
                      ELSE <<"m", "o", "b", "i", "l", "e">>

\* sanitize_filename(url, viewport)
sanitize_filename(url, vp) ==
    LET d1 == Replace(Replace(Replace(url, T_https_prefix, <<>>),
                              T_http_prefix, <<>>), T_www, <<>>)
        d2 == Replace(Replace(Replace(d1, T_com, <<>>), T_org, <<>>), T_net, <<>>)
        d3 == Replace(Replace(Replace(d2, <<".">>, <<"_">>), <<"-">>, <<"_">>),
                      <<"/">>, <<"_">>)
    IN  d3 \o <<"_">> \o Suffix(vp)

\* texts given as a URL: a bare host, hosts with http and https, a host
\* with another scheme, a padded host, the example of the documentation, a
\* path with a dash, and the empty text
UrlTexts ==
    { <<"a", ".", "c", "o", "m">>,
      T_https_prefix \o <<"a", ".", "c", "o", "m">>,
      T_http_prefix \o <<"a", ".", "o", "r", "g">>,
      T_ftp_prefix \o <<"a", ".", "n", "e", "t">>,
      <<" ", "a", ".", "c", "o", "m", " ">>,
      T_https_prefix \o T_www \o T_example \o T_com,
      <<"a", "-", "b", "/", "c", ".", "d">>,
      <<>> }

UrlLists == {<<t>> : t \in UrlTexts} \cup {<<t, u>> : t \in UrlTexts, u \in UrlTexts}

\* confirm.lower() of what the user may answer
Answers == {<<"y">>, <<"y", "e", "s">>, <<"n">>, <<>>}

\* the state before main() runs, with the inputs it will read
CliStart(argv, lines, ans) ==
    /\ args_urls = argv
    /\ typed = lines
    /\ answer = ans
    /\ cliPc = "start"
    /\ main_urls = <<>>
    /\ invalid_urls = <<>>
    /\ file_names = <<>>
    /\ exit_cause = "none"
    /\ exit_code = -1

CliIdle == CliStart(<<T_https_prefix \o <<"a", ".", "c", "o", "m">>>>, <<>>, <<>>)

\* sys.exit(code)
Exit(cause, code) ==
    /\ cliPc' = "exited"
    /\ exit_cause' = cause
    /\ exit_code' = code

\* main, "Get URLs": --urls split at the commas and stripped, or the prompts;
\* an empty list ends the run with status 1
GetUrls ==
    /\ cliPc = "start"
    /\ LET got == IF args_urls # <<>>
                    THEN [i \in 1..Len(args_urls) |-> Strip(args_urls[i])]
                    ELSE get_urls_interactive(typed, <<>>)
       IN  /\ main_urls' = got
           /\ IF got = <<>>
                THEN Exit("no_urls", 1)
                ELSE cliPc' = "validate" /\ UNCHANGED <<exit_cause, exit_code>>
    /\ UNCHANGED <<args_urls, typed, answer, invalid_urls, file_names>>

\* main, "Validate URLs" and "Limit to max URLs"
ValidateUrls ==
    /\ cliPc = "validate"
    /\ LET v == validate_urls(main_urls)
       IN  /\ invalid_urls' = v.invalid
           /\ IF v.valid = <<>>
                THEN /\ main_urls' = v.valid
                     /\ Exit("no_urls", 1)
                ELSE /\ main_urls' = IF Len(v.valid) > max_urls
                                       THEN SubSeq(v.valid, 1, max_urls)
                                       ELSE v.valid
                     /\ cliPc' = "confirm"
                     /\ UNCHANGED <<exit_cause, exit_code>>
    /\ UNCHANGED <<args_urls, typed, answer, file_names>>

\* main, "Confirm with user": asked only without --urls
Confirm ==
    /\ cliPc = "confirm"
    /\ IF args_urls = <<>> /\ answer \notin {<<"y">>, <<"y", "e", "s">>}
         THEN Exit("cancelled", 0)
         ELSE cliPc' = "analyze" /\ UNCHANGED <<exit_cause, exit_code>>
    /\ UNCHANGED <<args_urls, typed, answer, main_urls, invalid_urls, file_names>>

\* main, from "Create analyzer" to the end: the artifacts of every URL are
\* named by sanitize_filename; an exception out of WebsiteAnalyzer(...),
\* analyze_all_urls or display_results ends the run with status 1, otherwise
\* main returns and the status is 0
RunAnalysis ==
    /\ cliPc = "analyze"
    /\ \E raises \in BOOLEAN :
        IF raises
          THEN /\ Exit("raised", 1)
               /\ UNCHANGED file_names
          ELSE /\ Exit("completed", 0)
               /\ file_names' = [i \in 1..Len(main_urls) |->
                                   [vp \in Viewports |-> sanitize_filename(main_urls[i], vp)]]
    /\ UNCHANGED <<args_urls, typed, answer, main_urls, invalid_urls>>

(***************************************************************************)
(* Screenshot step: WebsiteAnalyzer._take_page_screenshot                  *)
(***************************************************************************)
\* the keys of viewport_results before step 2 of _analyze_viewport
StepIdle ==
    /\ stepPc = "before"
    /\ emitted_before = <<>>
    /\ store_after_nav = <<>>
    /\ step_error_info = <<>>
    /\ error_file = <<>>
    /\ step_result = <<>>
    /\ step_vr = [screenshot_path |-> "None", error_log_path |-> "absent",
                  error_count |-> 0]

\* the dict of the except clause of _take_page_screenshot
StepFailed == [page_screenshot |-> "None", error_log |-> "None", error_count |-> 0]

\* the dict returned after take_screenshot returned True
StepDone(error_info) ==
    [page_screenshot |-> "png", error_log |-> "json",
     error_count |-> error_info.total_errors]

\* "Navigate to URL if not already navigated": navigate_to_url(url) is
\* called with the URL the session is on; False raises into the except clause
StepNavigate ==
    /\ stepPc = "before"
    /\ \E getOk, waitOk, injectOk \in BOOLEAN :
        LET page == NavOutcome(CurrentPage, currentUrl, getOk, waitOk, injectOk)
        IN  /\ SetPage(page)
            /\ emitted_before' = consoleStore
            /\ store_after_nav' = page.consoleStore
            /\ IF page.navResult = "True"
                 THEN /\ stepPc' = "navigated"
                      /\ UNCHANGED step_result
                 ELSE /\ stepPc' = "returned"
                      /\ step_result' = <<StepFailed>>
    /\ UNCHANGED <<step_error_info, error_file, step_vr>>

\* what scroll_and_capture_errors can return in the current state when no
\* checkpoint of the walk had errors: the failed dict, or the totals of the
\* final harvest
StepCaptureReports ==
    {ScrollFailure} \cup {ScrollSuccess(final, <<>>) : final \in HarvestReports}

\* error_info = browser.scroll_and_capture_errors(duration=15)
StepCapture ==
    /\ stepPc = "navigated"
    /\ \E info \in StepCaptureReports : step_error_info' = <<info>>
    /\ stepPc' = "captured"
    /\ UNCHANGED <<emitted_before, store_after_nav, error_file, step_result,
                   step_vr>>

\* json.dump(error_info, f): the error report is written, or open() raises
StepDump ==
    /\ stepPc = "captured"
    /\ \E dumpOk \in BOOLEAN :
        IF dumpOk
          THEN /\ error_file' = step_error_info
               /\ stepPc' = "dumped"
               /\ UNCHANGED step_result
          ELSE /\ stepPc' = "returned"
               /\ step_result' = <<StepFailed>>
               /\ UNCHANGED error_file
    /\ UNCHANGED <<emitted_before, store_after_nav, step_error_info, step_vr>>

\* browser.take_screenshot(...): True gives the dict with the paths and the
\* total, False raises into the except clause
StepShot ==
    /\ stepPc = "dumped"
    /\ \E shotOk \in BOOLEAN :
        step_result' = <<IF shotOk THEN StepDone(error_file[1]) ELSE StepFailed>>
    /\ stepPc' = "returned"
    /\ UNCHANGED <<emitted_before, store_after_nav, step_error_info, error_file,
                   step_vr>>

\* _analyze_viewport, step 2: the three keys are copied from the dict
StepCopy ==
    /\ stepPc = "returned"
    /\ step_vr' = [screenshot_path |-> step_result[1].page_screenshot,
                   error_log_path |-> step_result[1].error_log,
                   error_count |-> step_result[1].error_count]
    /\ stepPc' = "copied"
    /\ UNCHANGED <<emitted_before, store_after_nav, step_error_info, error_file,
                   step_result>>

(***************************************************************************)
(* Error-log summary: WebsiteAnalyzer._generate_error_log_summary          *)
(***************************************************************************)
\* the error logs a viewport can have left: none, the failed capture, a
\* capture without errors, a capture with a page error and a browser log
LogReports ==
    {<<>>} \cup {<<r>> : r \in CaptureReports}

\* if capture_status == 'success': if has_errors: ...
CountsAsErrors(rep) ==
    /\ rep # <<>>
    /\ rep[1].capture_status = "success"
    /\ rep[1].has_errors

\* the increments of one pass of `for viewport in ['desktop', 'mobile']`
RECURSIVE ViewportIncrements(_, _)
ViewportIncrements(reps, i) ==
    IF i > Len(ViewportOrder) THEN [with_errors |-> 0, errors_found |-> 0]
    ELSE LET rest == ViewportIncrements(reps, i + 1)
             rep == reps[ViewportOrder[i]]
         IN  IF CountsAsErrors(rep)
               THEN [with_errors |-> rest.with_errors + 1,
                     errors_found |-> rest.errors_found + rep[1].total_errors]
               ELSE rest

\* total_urls_with_errors and total_errors_found after
\* `for url, results in self.results.items()`
RECURSIVE UrlIncrements(_, _, _)
UrlIncrements(us, reports, i) ==
    IF i > Len(us) THEN [with_errors |-> 0, errors_found |-> 0]
    ELSE LET rest == UrlIncrements(us, reports, i + 1)
             this == ViewportIncrements(reports[us[i]], 1)
         IN  [with_errors |-> this.with_errors + rest.with_errors,
              errors_found |-> this.errors_found + rest.errors_found]

\* the three lines of "OVERALL ERROR SUMMARY"
ErrorLogSummary(us, reports) ==
    LET t == UrlIncrements(us, reports, 1)
    IN  [urls_with_errors |-> t.with_errors,
         urls_analysed |-> Len(us),
         total_errors_found |-> t.errors_found,
         clean_urls |-> Len(us) - t.with_errors]

generate_error_log_summary ==
    /\ log_summary = <<>>
    /\ log_summary' = <<ErrorLogSummary(log_urls, log_reports)>>
    /\ UNCHANGED <<log_urls, log_reports>>

\* an analysed batch whose error logs are as `reports` says
LogStart(us, reports) ==
    /\ log_urls = us
    /\ log_reports = reports
    /\ log_summary = <<>>

LogIdle ==
    LogStart(<<"https://a.example">>,
             [u \in {"https://a.example"} |-> [vp \in Viewports |-> <<>>]])

(***************************************************************************)
(* Recording: _record_page_navigation and the recorder's worker thread     *)
(***************************************************************************)
\* BrowserVideoRecorder.__init__: flag down, no thread
RecorderIdle ==
    /\ is_recording = FALSE
    /\ mainPc = "constructed"
    /\ workerPc = "unstarted"
    /\ frames = 0
    /\ captures = 0
    /\ mainCommands = 0
    /\ driver_users = {}
    /\ video_written = FALSE

\* start_recording: raises the flag and starts the thread on _record_browser
start_recording ==
    /\ mainPc = "constructed"
    /\ ~is_recording
    /\ is_recording' = TRUE
    /\ workerPc' = "loop"
    /\ mainPc' = "scroll"
    /\ UNCHANGED <<frames, captures, mainCommands, driver_users, video_written>>

\* scroll_page: the calling thread sends a command to browser.driver
ScrollCommandBegin ==
    /\ mainPc = "scroll"
    /\ mainCommands < ScrollCommands
    /\ mainCommands' = mainCommands + 1
    /\ driver_users' = driver_users \cup {"main"}
    /\ mainPc' = "in_command"
    /\ UNCHANGED <<is_recording, workerPc, frames, captures, video_written>>

\* scroll_page: the command returns, or raises and scroll_page's except
\* clause ends the scroll
ScrollCommandEnd ==
    /\ mainPc = "in_command"
    /\ \E ok \in BOOLEAN :
        mainPc' = IF ok /\ mainCommands < ScrollCommands THEN "scroll" ELSE "settle"
    /\ driver_users' = driver_users \ {"main"}
    /\ UNCHANGED <<is_recording, workerPc, frames, captures, mainCommands,
                   video_written>>

\* stop_recording, first statement: the flag is lowered
stop_recording ==
    /\ mainPc = "settle"
    /\ is_recording' = FALSE
    /\ mainPc' = "join"
    /\ UNCHANGED <<workerPc, frames, captures, mainCommands, driver_users,
                   video_written>>

\* stop_recording: join(timeout=5) returns when the thread has ended or
\* when the timeout has passed
JoinCompletesOnThreadEnd(threadEnded, timedOut) == threadEnded

\* join(timeout=5) is skipped when there is no live thread, and otherwise
\* returns when the thread has ended or the timeout has passed
JoinCompletes(threadEnded, timedOut) == threadEnded \/ timedOut

JoinReturn ==
    /\ mainPc = "join"
    /\ \E timedOut \in BOOLEAN :
        JoinCompletes(workerPc \in {"unstarted", "done"}, timedOut)
    /\ mainPc' = "returned"
    /\ UNCHANGED <<is_recording, workerPc, frames, captures, mainCommands,
                   driver_users, video_written>>

\* _analyze_viewport with only the video module enabled: after
\* _record_page_navigation has returned the with block is left and
\* BrowserManager.__exit__ closes the session
SessionExit ==
    /\ mainPc = "returned"
    /\ close
    /\ mainPc' = "closed"
    /\ UNCHANGED <<is_recording, workerPc, frames, captures, mainCommands,
                   driver_users, video_written>>

\* _record_browser: the loop test, then the start of get_screenshot_as_png
\* on the driver the recorder was constructed with
WorkerLoopTest ==
    /\ workerPc = "loop"
    /\ IF is_recording
         THEN /\ captures < MaxCaptures
              /\ captures' = captures + 1
              /\ driver_users' = driver_users \cup {"worker"}
              /\ workerPc' = "capturing"
         ELSE /\ workerPc' = "write"
              /\ UNCHANGED <<captures, driver_users>>
    /\ UNCHANGED <<is_recording, mainPc, frames, mainCommands, video_written>>

\* _record_browser: the screenshot returns and the decoded frame is appended,
\* or the command raises and the inner except clause skips the frame
WorkerCaptureEnd ==
    /\ workerPc = "capturing"
    /\ \E ok \in BOOLEAN : frames' = IF ok THEN frames + 1 ELSE frames
    /\ driver_users' = driver_users \ {"worker"}
    /\ workerPc' = "loop"
    /\ UNCHANGED <<is_recording, mainPc, captures, mainCommands, video_written>>

\* _record_browser: after the loop the frames are written when there are
\* any, and the finally clause lowers the flag
WorkerWrite ==
    /\ workerPc = "write"
    /\ \E saveOk \in BOOLEAN : video_written' = (frames > 0 /\ saveOk)
    /\ is_recording' = FALSE
    /\ workerPc' = "done"
    /\ UNCHANGED <<mainPc, frames, captures, mainCommands, driver_users>>

(***************************************************************************)
(* SpecScore: one scoring call on an open session                          *)
(***************************************************************************)
InitScore ==
    /\ \E vp \in Viewports : \E url \in Urls : SessionNavigated(vp, url)
    /\ ScrollIdle(0, 1)
    /\ \E url \in Urls : ScoreIdle(url)
    /\ BatchIdle
    /\ ShotIdle
    /\ RecorderIdle
    /\ CliIdle
    /\ StepIdle
    /\ LogIdle

NextScore ==
    \/ analyze_pagespeed_with_fallback /\ UNCHANGED <<scrollVars, batchVars, shotVars, recVars, cliVars, stepVars, logVars>>
    \/ PageEmitsError /\ UNCHANGED <<scrollVars, scoreVars, batchVars, shotVars, recVars, cliVars, stepVars, logVars>>

SpecScore == InitScore /\ [][NextScore]_vars

\* C4: when the primary result of some strategy is an error mentioning 429,
\* the fallback runs for all strategies: no primary entry is returned, and
\* every fallback entry without error is flagged as fallback, with a note.
C4_RateLimitTriggersFallback ==
    (psPc = "done" /\ \E st \in StrategySet :
                        /\ HasError(primary_results[st])
                        /\ Mentions429(primary_results[st].error))
    => /\ fallback_ran
       /\ \A st \in StrategySet :
            /\ pagespeed_results[st].error \notin ApiErrors
            /\ ~HasError(pagespeed_results[st])
                => /\ pagespeed_results[st].fallback
                   /\ pagespeed_results[st].note # ""

C4_Witness ==
    /\ psPc = "done"
    /\ ~HasError(primary_results["mobile"])
    /\ Mentions429(primary_results["desktop"].error)
    /\ pagespeed_results["mobile"].fallback
    /\ HasError(pagespeed_results["desktop"])

\* C5: when a primary request fails with an error that is not a 429 rate
\* limit, the orchestrator switches to the fallback scorer and does not
\* return the primary's error entries.
C5_UnavailableTriggersFallback ==
    (psPc = "done" /\ \E st \in StrategySet :
                        /\ HasError(primary_results[st])
                        /\ ~Mentions429(primary_results[st].error))
    => /\ fallback_ran
       /\ \A st \in StrategySet : pagespeed_results[st].error \notin ApiErrors

\* the score stated by the specification for (load_time, page_area)
ReferenceScore(load_time, page_area) ==
    LET byLoad == CASE load_time > 5000 -> 30
                    [] load_time > 3000 /\ load_time <= 5000 -> 20
                    [] load_time > 2000 /\ load_time <= 3000 -> 10
                    [] OTHER -> 0
        byArea == CASE page_area > 2000000 -> 20
                    [] page_area > 1000000 /\ page_area <= 2000000 -> 10
                    [] OTHER -> 0
        raw == 100 - byLoad - byArea
    IN  IF raw < 0 THEN 0 ELSE IF raw > 100 THEN 100 ELSE raw

\* C6: the fallback score is the reference function of (load_time,
\* page_area), an integer in 0..100; load_time 6000 with page_area 3000000
\* gives 50.
C6_FallbackScoreIsReference ==
    \A st \in StrategySet :
        (fallback_ran /\ ~HasError(pagespeed_results[st]))
        => LET r == pagespeed_results[st]
           IN  /\ r.score \in 0..100
               /\ r.score = ReferenceScore(r.metrics.load_time, r.metrics.page_size)
               /\ (r.metrics.load_time = 6000 /\ r.metrics.page_size = 3000000)
                    => r.score = 50

C6_Witness ==
    /\ fallback_ran
    /\ pagespeed_results["mobile"].metrics = Measured(6000, 3000000)
    /\ pagespeed_results["mobile"].score = 50
    /\ pagespeed_results["desktop"].metrics = Measured(2000, 1000001)
    /\ pagespeed_results["desktop"].score = 90

\* C26: when the fallback scorer could not read the browser's timings (its
\* metrics are the empty mapping), its result carries no numeric score.
C26_FailedMeasurementHasNoScore ==
    (psPc = "done" /\ fallback_ran) =>
        \A st \in StrategySet :
            (~HasError(pagespeed_results[st]) /\ ~pagespeed_results[st].metrics.measured)
                => pagespeed_results[st].score = -1

(***************************************************************************)
(* SpecScroll: one scroll call, or one harvest, on a loaded page           *)
(***************************************************************************)
InitScroll ==
    /\ SessionNavigated("desktop", "https://a.example")
    /\ ScoreIdle("https://a.example")
    /\ BatchIdle
    /\ \E h \in 0..MaxHeight : \E vh \in 1..MaxViewportHeight : ScrollIdle(h, vh)
    /\ ShotIdle
    /\ RecorderIdle
    /\ CliIdle
    /\ StepIdle
    /\ LogIdle

NextScroll ==
    \/ scroll_page /\ UNCHANGED <<sessionVars, scoreVars, batchVars, shotVars, recVars, cliVars, stepVars, logVars>>
    \/ scroll_and_capture_errors /\ UNCHANGED <<sessionVars, scoreVars, batchVars, shotVars, recVars, cliVars, stepVars, logVars>>
    \/ ScrollStep /\ UNCHANGED <<sessionVars, scoreVars, batchVars, shotVars, recVars, cliVars, stepVars, logVars>>
    \/ ScrollFinish /\ UNCHANGED <<sessionVars, scoreVars, batchVars, shotVars, recVars, cliVars, stepVars, logVars>>
    \/ get_console_errors /\ UNCHANGED <<sessionVars, scoreVars, batchVars, shotVars, recVars, cliVars, stepVars, logVars>>
    \/ PageEmitsError /\ UNCHANGED <<scrollVars, scoreVars, batchVars, shotVars, recVars, cliVars, stepVars, logVars>>

SpecScroll == InitScroll /\ [][NextScroll]_vars

(***************************************************************************)
(* Claims about the harvest and the scroll driver (SpecScroll)             *)
(***************************************************************************)
BucketSum(r) == Len(r.console_errors) + Len(r.page_errors) + Len(r.browser_logs)

RECURSIVE NestedSum(_)
NestedSum(se) ==
    IF se = <<>> THEN 0 ELSE BucketSum(Head(se).errors) + NestedSum(Tail(se))

FlatSum(r) == BucketSum(r) + NestedSum(r.scroll_errors)

\* C7: in the report returned by scroll_and_capture_errors, total_errors is
\* the flat sum of all bucket lengths, the entries nested in scroll_errors
\* included.
C7_TotalIsFlatSum ==
    \A i \in 1..Len(scrollResult) :
        scrollResult[i].total_errors = FlatSum(scrollResult[i])

\* every report a harvest has returned: the direct one and the checkpoint ones
HarvestedReports ==
    {lastHarvest[i] : i \in 1..Len(lastHarvest)}
        \cup {scroll_errors[i].errors : i \in 1..Len(scroll_errors)}

\* C8: every report returned by get_console_errors, on the success and on the
\* failure path, has total_errors = the sum of its three bucket lengths and
\* has_errors = (total_errors > 0).
C8_HarvestTotalConsistent ==
    \A r \in HarvestedReports :
        /\ r.total_errors = BucketSum(r)
        /\ r.has_errors = (r.total_errors > 0)

C8_Witness ==
    /\ lastHarvest # <<>>
    /\ ~lastHarvest[1].capture_error
    /\ lastHarvest[1].browser_logs # <<>>
    /\ lastHarvest[1].total_errors >= 2

\* C9: a sub-step of the harvest that fails empties only its own bucket: what
\* the sub-steps that succeeded have read is still returned.
C9_FailureEmptiesOnlyItsBucket ==
    \A i \in 1..Len(lastHarvest) :
        LET in == lastHarvestIn[i]
            r == lastHarvest[i]
        IN  /\ in.scriptOk => r.console_errors = in.store
            /\ (in.scriptOk /\ in.findOk) => r.page_errors = PageErrors(in.texts)
            /\ (in.scriptOk /\ in.findOk /\ in.logsOk)
                    => r.browser_logs = FilterLogs(in.logs)

\* the walk targets never exceed total_height and never decrease
WalkTargetsBounded ==
    \A i \in 1..Len(targets) :
        /\ targets[i] <= total_height * steps
        /\ i > 1 => targets[i - 1] <= targets[i]

\* C10 as claimed: bounded, non-decreasing walk targets, and the final forced
\* scroll targets the total_height the schedule was computed from, also when
\* the page height changes during the walk.
C10_FinalTargetsTotalHeight ==
    /\ WalkTargetsBounded
    /\ finalTarget # -1 => finalTarget = total_height

\* C10 amended: bounded, non-decreasing walk targets, and the final forced
\* scroll targets the page's scrollHeight as read when it is issued.
C10_FinalTargetsCurrentHeight ==
    /\ WalkTargetsBounded
    /\ finalTarget # -1 => finalTarget = heightAtFinal

C10_Witness ==
    /\ scrollPc = "done"
    /\ Len(targets) = steps
    /\ steps > 1
    /\ targets[steps] = total_height * steps
    /\ finalTarget # -1
    /\ heightAtFinal > total_height

\* the scroll call returned without entering its except clause
ScrollSucceeded ==
    /\ scrollPc = "done"
    /\ \/ scrollMode = "page" /\ scrollReturn = "True"
       \/ scrollMode = "capture" /\ scrollResult # <<>>
            /\ scrollResult[1].capture_status = "success"

\* distance = totalHeight - viewportHeight when positive, totalHeight otherwise
ClaimedDistance ==
    IF total_height - viewport_height > 0 THEN total_height - viewport_height
    ELSE total_height

\* target of walk step i, times steps: min(totalHeight, i * distance / steps)
ClaimedTarget(i) ==
    IF i * ClaimedDistance < total_height * steps THEN i * ClaimedDistance
    ELSE total_height * steps

\* the schedule of a walk that has begun
ScheduleAsClaimed ==
    scrollMode \in {"page", "capture"} /\ steps > 0 =>
        /\ Len(targets) = stepIndex
        /\ Len(targets) <= steps
        /\ \A i \in 1..Len(targets) : targets[i] = ClaimedTarget(i)
        /\ ScrollSucceeded => Len(targets) = steps

\* the measuring step: totalHeight is the larger of the height before and the
\* height after the probe, viewportHeight the window's inner height
MeasureAsClaimed ==
    scrollPc = "idle" /\ scrollPc' = "walk" =>
        /\ total_height' = (IF pageHeight' > pageHeight THEN pageHeight' ELSE pageHeight)
        /\ viewport_height' = innerHeight

\* C11: totalHeight is the larger of the heights measured before and after
\* the probe, distance is totalHeight - viewportHeight when positive and
\* totalHeight otherwise, walk step i targets min(totalHeight, i*distance/steps),
\* and a scroll that succeeds has issued exactly `steps` walk commands in order.
C11_ScrollSchedule == [](ScheduleAsClaimed) /\ [][MeasureAsClaimed]_vars

\* a completed walk of several steps on a page shorter than the viewport
C11_Witness ==
    /\ ScrollSucceeded
    /\ scrollMode = "page"
    /\ steps > 1
    /\ total_height > 0
    /\ total_height < viewport_height
    /\ Len(targets) = steps

\* C12: when a script error ends the capture scroll at walk step k, the
\* report is marked failed and still carries the checkpoint data of the
\* steps 1..k-1.
C12_FailedScrollKeepsCheckpoints ==
    (scrollPc = "done" /\ scrollMode = "capture" /\ scrollResult # <<>>
        /\ scrollResult[1].capture_status = "failed")
    => /\ stepIndex < steps \/ steps = 0 \/ finalTarget = -1
       /\ scrollResult[1].scroll_errors = scroll_errors

\* C13 as claimed: after a successful capture scroll, scroll_errors has one
\* entry per walk step, in step order, whatever the checkpoint harvest found.
C13_OneEntryPerStep ==
    (ScrollSucceeded /\ scrollMode = "capture") =>
        /\ Len(scrollResult[1].scroll_errors) = steps
        /\ \A i \in 1..Len(scrollResult[1].scroll_errors) :
              scrollResult[1].scroll_errors[i].position = targets[i]

\* the walk steps whose harvest counted at least one error, in step order
RECURSIVE StepsWithErrors(_, _)
StepsWithErrors(totals, i) ==
    IF i > Len(totals) THEN <<>>
    ELSE IF totals[i] > 0 THEN <<i>> \o StepsWithErrors(totals, i + 1)
    ELSE StepsWithErrors(totals, i + 1)

\* C13 amended: after a successful capture scroll, scroll_errors has one
\* entry per walk step whose harvest counted at least one error, in step
\* order, each holding that step's target and that step's report; steps whose
\* harvest found nothing leave no entry.
C13_OneEntryPerStepWithErrors ==
    (ScrollSucceeded /\ scrollMode = "capture") =>
        LET se == scrollResult[1].scroll_errors
            ks == StepsWithErrors(walk_totals, 1)
        IN  /\ Len(walk_totals) = steps
            /\ Len(se) = Len(ks)
            /\ \A j \in 1..Len(se) :
                  /\ se[j].position = targets[ks[j]]
                  /\ se[j].errors.total_errors = walk_totals[ks[j]]

\* a successful capture scroll with a clean first and a failing second step
C13_Witness ==
    /\ ScrollSucceeded
    /\ scrollMode = "capture"
    /\ Len(walk_totals) >= 2
    /\ walk_totals[1] = 0
    /\ walk_totals[2] > 0
    /\ Len(scrollResult[1].scroll_errors) = 1


(***************************************************************************)
(* SpecBatch: one run of analyze_all_urls                                  *)
(***************************************************************************)
InitBatch ==
    /\ BrowserManagerInit("desktop")
    /\ ScrollIdle(0, 1)
    /\ ScoreIdle("https://a.example")
    /\ \E in \in BatchInputs : BatchStart(in.urls, in.modules)
    /\ ShotIdle
    /\ RecorderIdle
    /\ CliIdle
    /\ StepIdle
    /\ LogIdle

NextBatch ==
    \/ AnalyzeViewportEnter /\ UNCHANGED <<scrollVars, scoreVars, shotVars, recVars, cliVars, stepVars, logVars>>
    \/ RecordStep /\ UNCHANGED <<scrollVars, scoreVars, shotVars, recVars, cliVars, stepVars, logVars>>
    \/ ScreenshotStep /\ UNCHANGED <<scrollVars, scoreVars, shotVars, recVars, cliVars, stepVars, logVars>>
    \/ PageInfoStep /\ UNCHANGED <<scrollVars, scoreVars, shotVars, recVars, cliVars, stepVars, logVars>>
    \/ ScoreStep /\ UNCHANGED <<scrollVars, scoreVars, shotVars, recVars, cliVars, stepVars, logVars>>
    \/ BodyRaises /\ UNCHANGED <<scrollVars, scoreVars, shotVars, recVars, cliVars, stepVars, logVars>>
    \/ AnalyzeViewportExit /\ UNCHANGED <<scrollVars, scoreVars, shotVars, recVars, cliVars, stepVars, logVars>>
    \/ FinishUrl /\ UNCHANGED <<scrollVars, scoreVars, shotVars, recVars, cliVars, stepVars, logVars>>
    \/ GenerateSummaryReport /\ UNCHANGED <<scrollVars, scoreVars, shotVars, recVars, cliVars, stepVars, logVars>>
    \/ GenerateErrorLogSummary /\ UNCHANGED <<scrollVars, scoreVars, shotVars, recVars, cliVars, stepVars, logVars>>

SpecBatch == InitBatch /\ [][NextBatch]_vars

\* _analyze_viewport has returned for some viewport and no later one is open
OutsideSessionScope ==
    sessions_opened > 0 /\ vpPc \in {"enter", "summary"}

\* C2: once _analyze_viewport has returned (after normal completion, after
\* failed steps, or after an exception left the with body), close() has been
\* called on its Browser Session and no browser process of it is running
C2_SessionClosedOnEveryExit ==
    OutsideSessionScope =>
        /\ sessions_closed = sessions_opened
        /\ sessions_leaked = 0

\* a session that had a driver was left through an exception
C2_Witness ==
    /\ OutsideSessionScope
    /\ vpIndex = 2
    /\ url_results.desktop.errors # <<>>
    /\ url_results.desktop.page_info = "info"
    /\ sessions_closed = 1

\* C3: when analyze_all_urls is done, every input URL has an entry in
\* self.results, _analyze_viewport ran for both viewports of every URL, and
\* both report files were written
C3_BatchNeverAborts ==
    batchPc = "done" =>
        /\ \A i \in 1..Len(urls) :
              /\ self_results[urls[i]].kind # "absent"
              /\ \A vp \in Viewports : <<i, vp>> \in viewport_calls
        /\ summary_report = "written"
        /\ error_log_summary = "written"

\* a batch of two URLs ended although the session of the first URL's desktop
\* viewport could not be opened and nothing of that viewport was produced
C3_Witness ==
    /\ batchPc = "done"
    /\ Len(urls) = 2
    /\ self_results[urls[1]].kind = "results"
    /\ self_results[urls[1]].data.desktop.page_info = "{}"
    /\ self_results[urls[1]].data.desktop.video_path = "None"
    /\ self_results[urls[1]].data.desktop.screenshot_path = "None"
    /\ self_results[urls[2]].kind = "results"

\* the viewport results stored in self.results
StoredViewportResults ==
    {self_results[u].data[vp] : u \in {x \in Urls : self_results[x].kind = "results"},
                                vp \in Viewports}

\* C17: a viewport whose recording or screenshot step failed has a non-empty
\* error list, and summary.errors_count counts it.
C17_StepFailureIsListed ==
    \A u \in Urls : self_results[u].kind = "results" =>
        \A vp \in Viewports :
            LET vr == self_results[u].data[vp]
                failed == \/ "record" \in modules /\ vr.video_path = "None"
                          \/ "screenshot" \in modules /\ vr.screenshot_path = "None"
            IN  failed => /\ vr.errors # <<>>
                          /\ self_results[u].data.summary.errors_count >= 1

\* 'pagespeed_results' holds an entry (a score or an error) for a strategy
Populated(vr) ==
    \E st \in StrategySet : vr.pagespeed_results[st] # ErrorResult("")

\* C18: video_path is set only if 'record' was requested and screenshot_path
\* only if 'screenshot' was; with modules = ['score'] a viewport whose
\* pipeline ran to its end has neither and has a populated score result, and
\* neither the record nor the screenshot step has navigated.
C18_ModuleGating ==
    /\ \A vr \in StoredViewportResults \cup {viewport_results} :
          /\ vr.video_path # "None" => "record" \in modules
          /\ vr.screenshot_path # "None" => "screenshot" \in modules
          /\ vr.error_log_path # "absent" => "screenshot" \in modules
    /\ modules = {"score"} =>
          \A vr \in StoredViewportResults :
              /\ vr.video_path = "None"
              /\ vr.screenshot_path = "None"
              /\ vr.errors = <<>> => Populated(vr)
    /\ (batchPc = "urls" /\ vpPc \in {"page_info", "score"}
            /\ modules \cap {"record", "screenshot"} = {})
          => navResult = "none"

\* a batch of two URLs with modules = ['score'] is done; the first URL has a
\* score for both viewports
C18_Witness ==
    /\ batchPc = "done"
    /\ modules = {"score"}
    /\ Len(urls) = 2
    /\ self_results[urls[1]].kind = "results"
    /\ self_results[urls[1]].data.summary.score_count = 2
    /\ self_results[urls[2]].kind = "results"

(***************************************************************************)
(* SpecSummary: _calculate_summary applied to the results of two viewports *)
(***************************************************************************)
\* what a strategy's entry of pagespeed_results can be
ScoreEntryKinds == {"none", "error", "low", "high"}

ScoreEntry(url, st, kind) ==
    IF kind = "none" THEN ErrorResult("")
    ELSE IF kind = "error" THEN ErrorResult("500 Server Error: Internal Server Error")
    ELSE IF kind = "low" THEN ScoreResult(url, st, 35, ApiMetrics)
    ELSE ScoreResult(url, st, 90, ApiMetrics)

\* the viewport results _calculate_summary is applied to
SummaryViewportInputs(url) ==
    {[NewViewportResults EXCEPT
        !.pagespeed_results = [st \in StrategySet |-> ScoreEntry(url, st, kinds[st])],
        !.pagespeed_files = files,
        !.video_path = video,
        !.errors = errs] :
        kinds \in [StrategySet -> ScoreEntryKinds],
        files \in {0, 3},
        video \in {"None", "video"},
        errs \in {<<>>, <<"Error in analysis">>}}

\* both viewports of the only URL have returned; the summary is next
InitSummary ==
    /\ BrowserManagerInit("desktop")
    /\ ScrollIdle(0, 1)
    /\ ScoreIdle("https://a.example")
    /\ ShotIdle
    /\ urls = <<"https://a.example">>
    /\ modules = ModuleNames
    /\ batchPc = "urls"
    /\ urlIndex = 1
    /\ vpIndex = 1
    /\ vpPc = "summary"
    /\ viewport_results = NewViewportResults
    /\ \E d, m \in SummaryViewportInputs("https://a.example") :
          url_results = [NewUrlResults EXCEPT !.desktop = d, !.mobile = m]
    /\ self_results = [u \in Urls |-> NoEntry]
    /\ viewport_calls = {<<1, vp>> : vp \in Viewports}
    /\ sessions_opened = 2
    /\ sessions_closed = 2
    /\ sessions_leaked = 0
    /\ summary_report = "none"
    /\ error_log_summary = "none"
    /\ RecorderIdle
    /\ CliIdle
    /\ StepIdle
    /\ LogIdle

NextSummary ==
    \/ FinishUrl /\ UNCHANGED <<scrollVars, scoreVars, shotVars, recVars, cliVars, stepVars, logVars>>
    \/ GenerateSummaryReport /\ UNCHANGED <<scrollVars, scoreVars, shotVars, recVars, cliVars, stepVars, logVars>>
    \/ GenerateErrorLogSummary /\ UNCHANGED <<scrollVars, scoreVars, shotVars, recVars, cliVars, stepVars, logVars>>

SpecSummary == InitSummary /\ [][NextSummary]_vars

\* the score of the strategy named like the viewport, -1 when it has none
OwnStrategyScore(vr, vp) == vr.pagespeed_results[vp].score

\* C19: in every stored UrlResult, desktop_score / mobile_score is the score
\* of the same-named strategy of that viewport's score result (none if
\* absent), the average is the mean of the two when both exist, the single
\* one when one exists and none otherwise, and errors_count is the sum of
\* the lengths of the two error lists.
C19_SummaryIsDerived ==
    \A u \in Urls : self_results[u].kind = "results" =>
        LET r == self_results[u].data
            d == OwnStrategyScore(r.desktop, "desktop")
            m == OwnStrategyScore(r.mobile, "mobile")
            sm == r.summary
        IN  /\ sm.desktop_score = d
            /\ sm.mobile_score = m
            /\ (d # -1 /\ m # -1) => sm.score_count = 2 /\ sm.score_sum = d + m
            /\ (d # -1 /\ m = -1) => sm.score_count = 1 /\ sm.score_sum = d
            /\ (d = -1 /\ m # -1) => sm.score_count = 1 /\ sm.score_sum = m
            /\ (d = -1 /\ m = -1) => sm.score_count = 0
            /\ sm.errors_count = Len(r.desktop.errors) + Len(r.mobile.errors)

\* a stored summary of two different scores and two listed errors, where the
\* other strategy of the desktop viewport scored differently
C19_Witness ==
    /\ self_results["https://a.example"].kind = "results"
    /\ self_results["https://a.example"].data.summary.desktop_score = 35
    /\ self_results["https://a.example"].data.summary.mobile_score = 90
    /\ self_results["https://a.example"].data.summary.errors_count = 2
    /\ self_results["https://a.example"].data.desktop.pagespeed_results["mobile"].score = 90

(***************************************************************************)
(* SpecShot: screenshots taken on a loaded page                            *)
(***************************************************************************)
InitShot ==
    /\ \E vp \in Viewports : SessionNavigated(vp, "https://a.example")
    /\ ScrollIdle(0, 1)
    /\ ScoreIdle("https://a.example")
    /\ BatchIdle
    /\ ShotIdle
    /\ RecorderIdle
    /\ CliIdle
    /\ StepIdle
    /\ LogIdle

NextShot ==
    \/ take_screenshot /\ UNCHANGED <<sessionVars, scrollVars, scoreVars, batchVars, recVars, cliVars, stepVars, logVars>>

SpecShot == InitShot /\ [][NextShot]_vars

\* C15: after a full-page take_screenshot that resized the window to the
\* content size has returned, with True or with False, the window has the
\* size configured for the session's viewport again.
C15_WindowRestored ==
    (shotReturn # "none" /\ shotFullPage /\ shotResized) =>
        window_size = ConfiguredSize(viewport)

(***************************************************************************)
(* SpecRecord: one recording of a loaded page                              *)
(***************************************************************************)
InitRecord ==
    /\ \E vp \in Viewports : \E u \in Urls : SessionNavigated(vp, u)
    /\ ScrollIdle(0, 1)
    /\ ScoreIdle("https://a.example")
    /\ BatchIdle
    /\ ShotIdle
    /\ RecorderIdle
    /\ CliIdle
    /\ StepIdle
    /\ LogIdle

NextRecord ==
    \/ start_recording /\ UNCHANGED <<sessionVars, scrollVars, scoreVars, batchVars, shotVars, cliVars, stepVars, logVars>>
    \/ ScrollCommandBegin /\ UNCHANGED <<sessionVars, scrollVars, scoreVars, batchVars, shotVars, cliVars, stepVars, logVars>>
    \/ ScrollCommandEnd /\ UNCHANGED <<sessionVars, scrollVars, scoreVars, batchVars, shotVars, cliVars, stepVars, logVars>>
    \/ stop_recording /\ UNCHANGED <<sessionVars, scrollVars, scoreVars, batchVars, shotVars, cliVars, stepVars, logVars>>
    \/ JoinReturn /\ UNCHANGED <<sessionVars, scrollVars, scoreVars, batchVars, shotVars, cliVars, stepVars, logVars>>
    \/ WorkerLoopTest /\ UNCHANGED <<sessionVars, scrollVars, scoreVars, batchVars, shotVars, cliVars, stepVars, logVars>>
    \/ WorkerCaptureEnd /\ UNCHANGED <<sessionVars, scrollVars, scoreVars, batchVars, shotVars, cliVars, stepVars, logVars>>
    \/ WorkerWrite /\ UNCHANGED <<sessionVars, scrollVars, scoreVars, batchVars, shotVars, cliVars, stepVars, logVars>>
    \/ SessionExit /\ UNCHANGED <<scrollVars, scoreVars, batchVars, shotVars, cliVars, stepVars, logVars>>

SpecRecord == InitRecord /\ [][NextRecord]_vars

\* C22: nothing uses a browser session after the iteration that created it
\* has closed it: once __exit__ has run, the recorder's worker is not inside
\* a command of that session's driver.
C22_NoUseAfterClose ==
    mainPc = "closed" => "worker" \notin driver_users

\* C28: when _record_page_navigation has returned the video path, the
\* worker thread has ended, so it runs neither during the later steps nor
\* during the close of the session.
C28_WorkerDoneOnReturn ==
    mainPc \in {"returned", "closed"} => workerPc = "done"

(***************************************************************************)
(* SpecRecorder: a BrowserVideoRecorder whose caller may also stop it      *)
(* before starting it; the caller's thread keeps running, the worker       *)
(* thread may stall at any point                                           *)
(***************************************************************************)
\* stop_recording on a recorder that was never started: recording_thread is
\* None
StopUnstarted ==
    /\ mainPc = "constructed"
    /\ is_recording' = FALSE
    /\ mainPc' = "join"
    /\ UNCHANGED <<workerPc, frames, captures, mainCommands, driver_users,
                   video_written>>

NextRecorder ==
    \/ NextRecord
    \/ StopUnstarted /\ UNCHANGED <<sessionVars, scrollVars, scoreVars, batchVars, shotVars, cliVars, stepVars, logVars>>

SpecRecorder ==
    /\ InitRecord
    /\ [][NextRecorder]_vars
    /\ WF_recVars(JoinReturn)

\* the caller's thread takes a step of stop_recording
StopStep == mainPc \in {"settle", "join"} \/ (mainPc = "constructed" /\ mainPc' = "join")

\* C21: stop_recording lowers the flag and then always returns, with the
\* worker stuck or never started as well; its steps leave the worker where
\* it is (the worker is not killed); and once the flag is down the worker
\* begins no further frame capture.
C21_StopRecordingReturns ==
    /\ [](mainPc \in {"join", "returned"} => ~is_recording)
    /\ (mainPc = "join") ~> (mainPc = "returned")
    /\ [][(StopStep /\ mainPc' # mainPc) => workerPc' = workerPc]_vars
    /\ [][~is_recording => captures' = captures]_vars

\* stop_recording has returned while the worker is still inside a capture
C21_Witness ==
    /\ mainPc = "returned"
    /\ workerPc = "capturing"


\* C20: while a recording is active the worker thread and the thread that
\* drives the scroll are never inside a command of the shared browser
\* driver at the same time.
C20_DriverNotShared ==
    is_recording => ~({"main", "worker"} \subseteq driver_users)

(***************************************************************************)
(* SpecCli: one run of the command, with --urls or with the prompts        *)
(***************************************************************************)
InitCli ==
    /\ \E vp \in Viewports : BrowserManagerInit(vp)
    /\ ScrollIdle(0, 1)
    /\ ScoreIdle("https://a.example")
    /\ BatchIdle
    /\ ShotIdle
    /\ RecorderIdle
    /\ \/ \E argv \in UrlLists : CliStart(argv, <<>>, <<>>)
       \/ \E lines \in UrlLists : \E ans \in Answers :
            /\ get_urls_interactive(lines, <<>>) # <<>>
            /\ CliStart(<<>>, lines, ans)
    /\ StepIdle
    /\ LogIdle

NextCli ==
    \/ GetUrls /\ UNCHANGED <<sessionVars, scrollVars, scoreVars, batchVars, shotVars, recVars, stepVars, logVars>>
    \/ ValidateUrls /\ UNCHANGED <<sessionVars, scrollVars, scoreVars, batchVars, shotVars, recVars, stepVars, logVars>>
    \/ Confirm /\ UNCHANGED <<sessionVars, scrollVars, scoreVars, batchVars, shotVars, recVars, stepVars, logVars>>
    \/ RunAnalysis /\ UNCHANGED <<sessionVars, scrollVars, scoreVars, batchVars, shotVars, recVars, stepVars, logVars>>

SpecCli == InitCli /\ [][NextCli]_vars

\* the text has a scheme, and it is neither http nor https
ForeignScheme(t) ==
    /\ Contains(t, <<":", "/", "/">>)
    /\ ~StartsWith(t, T_http_prefix)
    /\ ~StartsWith(t, T_https_prefix)

\* the texts main() handed to validate_urls
GivenUrls ==
    IF args_urls # <<>> THEN [i \in 1..Len(args_urls) |-> Strip(args_urls[i])]
                        ELSE get_urls_interactive(typed, <<>>)

\* C23: after validation every URL kept starts with http:// or https://, a
\* text without that prefix was given the https:// prefix, and a text with
\* another scheme (ftp://host) is reported and not among the URLs kept.
C23_ForeignSchemeRejected ==
    cliPc \in {"confirm", "analyze"} =>
        /\ \A i \in 1..Len(main_urls) :
             StartsWith(main_urls[i], T_http_prefix) \/ StartsWith(main_urls[i], T_https_prefix)
        /\ \A i \in 1..Len(GivenUrls) :
             ForeignScheme(GivenUrls[i]) =>
                /\ \A j \in 1..Len(main_urls) : main_urls[j] # T_https_prefix \o GivenUrls[i]
                /\ \E j \in 1..Len(invalid_urls) : invalid_urls[j] = T_https_prefix \o GivenUrls[i]

\* C24: the status is not 0 when no valid URL remains and when the user
\* declines the confirmation, and it is 0 when the analysis ran to its end.
C24_ExitStatus ==
    cliPc = "exited" =>
        /\ exit_cause \in {"no_urls", "cancelled"} => exit_code # 0
        /\ exit_cause = "completed" => exit_code = 0

\* C25: the documented example gets the documented name, and two different
\* URLs of one run never get the same file name for the same viewport.
C25_NamesDoNotCollide ==
    /\ sanitize_filename(T_https_prefix \o T_www \o T_example \o T_com, "desktop")
         = T_example \o <<"_">> \o Suffix("desktop")
    /\ \A i, j \in 1..Len(file_names) : \A vp \in Viewports :
         main_urls[i] # main_urls[j] => file_names[i][vp] # file_names[j][vp]

(***************************************************************************)
(* SpecStep: the screenshot step on a session the recording step has       *)
(* already navigated                                                       *)
(***************************************************************************)
InitStep ==
    /\ \E vp \in Viewports : \E u \in Urls : SessionNavigated(vp, u)
    /\ ScrollIdle(2, 1)
    /\ ScoreIdle("https://a.example")
    /\ BatchIdle
    /\ ShotIdle
    /\ RecorderIdle
    /\ CliIdle
    /\ StepIdle
    /\ LogIdle

NextStep ==
    \/ PageEmitsError /\ UNCHANGED <<scrollVars, scoreVars, batchVars, shotVars, recVars, cliVars, stepVars, logVars>>
    \/ StepNavigate /\ UNCHANGED <<scrollVars, scoreVars, batchVars, shotVars, recVars, cliVars, logVars>>
    \/ StepCapture /\ UNCHANGED <<sessionVars, scrollVars, scoreVars, batchVars, shotVars, recVars, cliVars, logVars>>
    \/ StepDump /\ UNCHANGED <<sessionVars, scrollVars, scoreVars, batchVars, shotVars, recVars, cliVars, logVars>>
    \/ StepShot /\ UNCHANGED <<sessionVars, scrollVars, scoreVars, batchVars, shotVars, recVars, cliVars, logVars>>
    \/ StepCopy /\ UNCHANGED <<sessionVars, scrollVars, scoreVars, batchVars, shotVars, recVars, cliVars, logVars>>

SpecStep == InitStep /\ [][NextStep]_vars

\* s is an initial part of t
IsPrefix(s, t) == Len(s) <= Len(t) /\ SubSeq(t, 1, Len(s)) = s

\* C27: the navigate of the screenshot step, on a session that is already
\* on the URL, leaves the page's error storage as it was: what the page had
\* stored before it is still there when it has returned True.
C27_RenavigationKeepsStore ==
    (stepPc # "before" /\ navResult = "True") =>
        IsPrefix(emitted_before, store_after_nav)

\* C29: when an error report was written for the viewport, viewport_results
\* carries its path and its total_errors, also when the screenshot taken
\* after it failed.
C29_ErrorCountMatchesReport ==
    (stepPc = "copied" /\ error_file # <<>>) =>
        /\ step_vr.error_log_path = "json"
        /\ step_vr.error_count = error_file[1].total_errors

(***************************************************************************)
(* SpecErrorLog: the error-log summary of a batch of one or two URLs       *)
(***************************************************************************)
LogUrlLists == {<<"https://a.example">>, <<"https://a.example", "https://b.example">>}

InitErrorLog ==
    /\ \E vp \in Viewports : BrowserManagerInit(vp)
    /\ ScrollIdle(0, 1)
    /\ ScoreIdle("https://a.example")
    /\ BatchIdle
    /\ ShotIdle
    /\ RecorderIdle
    /\ CliIdle
    /\ StepIdle
    /\ \E us \in LogUrlLists :
       \E reports \in [{us[i] : i \in 1..Len(us)} -> [Viewports -> LogReports]] :
          LogStart(us, reports)

NextErrorLog ==
    \/ generate_error_log_summary /\ UNCHANGED <<sessionVars, scrollVars, scoreVars, batchVars, shotVars, recVars, cliVars, stepVars>>

SpecErrorLog == InitErrorLog /\ [][NextErrorLog]_vars

\* C30: in the error-log summary the number of URLs with errors is at most
\* the number of URLs analysed, and the number of clean URLs is not negative.
C30_SummaryCountsInRange ==
    log_summary # <<>> =>
        /\ log_summary[1].urls_with_errors <= log_summary[1].urls_analysed
        /\ log_summary[1].clean_urls >= 0

(***************************************************************************)
(* SpecSession: one BrowserManager driven by an arbitrary caller           *)
(***************************************************************************)
InitSession ==
    /\ \E vp \in Viewports : BrowserManagerInit(vp)
    /\ ScrollIdle(0, 1)
    /\ ScoreIdle("https://a.example")
    /\ BatchIdle
    /\ ShotIdle
    /\ RecorderIdle
    /\ CliIdle
    /\ StepIdle
    /\ LogIdle

NextSession ==
    \/ setup_driver /\ UNCHANGED <<scrollVars, scoreVars, batchVars, shotVars, recVars, cliVars, stepVars, logVars>>
    \/ navigate_to_url /\ UNCHANGED <<scrollVars, scoreVars, batchVars, shotVars, recVars, cliVars, stepVars, logVars>>
    \/ close /\ UNCHANGED <<scrollVars, scoreVars, batchVars, shotVars, recVars, cliVars, stepVars, logVars>>

SpecSession == InitSession /\ [][NextSession]_vars

\* C1: close() is idempotent: a second close() after one that released the
\* browser does not raise and issues no second driver.quit().
C1_CloseIdempotent == ~raised /\ quitCalls <= 1

\* C14: navigate_to_url never lets an exception out; on a session without a
\* browser it returns False, and it returns True only when the error hooks
\* were installed in the loaded page and _handle_delayed_css was called.
C14_NavigateReturnsFalseOnFailure ==
    /\ ~raised
    /\ navResult = "True" => hooksInstalled /\ cssHandled /\ currentUrl \in Urls
    /\ (navResult # "none" /\ driver = "None") => navResult = "False"

\* navigate_to_url was called on a session whose setup_driver got no browser
C14_Witness ==
    /\ setupResult = "False"
    /\ driver = "None"
    /\ navResult = "False"

\* C16: setup_driver returns False, once a driver service was obtained, only
\* after a creation of the browser with the minimal options was attempted.
C16_FailureOnlyAfterFallback ==
    (setupResult = "False" /\ createAttempts # <<>>) =>
        \E i \in 1..Len(createAttempts) : createAttempts[i] = "minimal"

====
